---- MODULE Spec2Model ----
(***************************************************************************)
(* A model of the RepoAgent summary pipeline:                              *)
(*   - the summary store and the ingestion entry points of CodeIndexer     *)
(*     (src/code_indexer.py),                                              *)
(*   - the parallel summarization coordinator                              *)
(*     (CodeIndexer.generate_all_summaries_parallel),                      *)
(*   - the confidence-gated query router (src/summary.py) and its          *)
(*     escalation path (src/repo_assistant.py).                            *)
(* Each part has its own specification over the shared variables; the      *)
(* variables of the other parts stay at their initial values.              *)
(***************************************************************************)
EXTENDS Integers, Sequences, FiniteSets, TLC

VARIABLES
    \* ---- the summary store and the indexer handle (CodeIndexer) ----
    disk,            \* the directory being indexed: path -> content or "absent"
    collection,      \* the chroma collection: a set of records [id, file_path, doc]
    file_contents,   \* CodeIndexer.file_contents: path -> content or "absent"
    all_files,       \* CodeIndexer.all_files: sequence of paths
    openai_api_key,  \* whether the indexer was given an API key
    last,            \* the last store operation, whether it returned, how many
                     \* records its clear step found, the ids of each
                     \* collection.add call of its write loop, in call order,
                     \* and how its clear step ended
    \* ---- one run of generate_all_summaries_parallel ----
    file_data,       \* the batch: sequence of paths (the content is the payload)
    max_concurrent,  \* CodeIndexer.max_concurrent
    semaphore,       \* value of the asyncio.Semaphore (free admission tokens)
    task,            \* per task: "created", "waiting", "inflight", "done"
    task_result,     \* per task: what the coroutine returned or raised
    call_outcome,    \* per task: how its call to the service ended ("pending" before)
    chunk_i,         \* loop variable i of the chunk loop (1-based start index)
    results,         \* the results dict: set of <<path, summary>> pairs
    ai_summaries,    \* the mapping the coordinator returned: <<path, summary>> pairs
    caller,          \* who awaits the batch: "direct" or "ingest"
    bpc,             \* "idle", "running", "returned"
    \* ---- _evaluate_summary_confidence applied to a growing candidate list ----
    cquery,          \* the query
    cands,           \* the retrieved summaries (result dicts)
    conf,            \* the confidence of cands
    prev_conf,       \* the confidence before the last summary was added
    \* ---- the query router (SmartSummaryAgent) and its escalation ----
    indexed,         \* the summary texts the collection returns, nearest first
    singleton,       \* whether _CODE_INDEXER_INSTANCE is set
    indexer,         \* SmartSummaryAgent.indexer: "unbuilt", "none" or "handle"
    repo_assistant,  \* whether SmartSummaryAgent.repo_assistant is set
    confidence_threshold,  \* in hundredths
    query_patterns,  \* query -> count
    rq,              \* the current or last call of query_with_summary_first
    messages,        \* the conversation of query_code
    \* ---- one file summary as an ingestion builds and stores it ----
    fsum,            \* the file, how it was summarized, and the stored record
    \* ---- archive inputs ----
    scratch,         \* the extraction directories that exist on the file system
    made,            \* the number of directories tempfile.mkdtemp has made
    zcall,           \* the current or last flow that extracts an archive
    \* ---- the tool surface (mcp_server) ----
    mcp_indexer,     \* mcp_server.indexer: "none", "ingestor" or "fresh"
    tcall,           \* the last tool call and how it ended
    \* ---- collecting the files of a directory ----
    walked           \* a directory tree and what each ingestion method collected

storeVars == <<disk, collection, file_contents, all_files, openai_api_key, last>>
batchVars == <<file_data, max_concurrent, semaphore, task, task_result, call_outcome,
               chunk_i, results, ai_summaries, caller, bpc>>
confVars == <<cquery, cands, conf, prev_conf>>
routerVars == <<indexed, singleton, indexer, repo_assistant, confidence_threshold,
                query_patterns, rq, messages>>
summaryVars == <<fsum>>
\* the variables of the parts that the store, the coordinator, the confidence
\* score and the router never touch
archiveVars == <<scratch, made, zcall>>
toolVars == <<mcp_indexer, tcall>>
walkVars == <<walked>>
sideVars == <<summaryVars, archiveVars, toolVars, walkVars>>
vars == <<storeVars, batchVars, confVars, routerVars, sideVars>>

(***************************************************************************)
(* Bounds of the model.                                                    *)
(***************************************************************************)
\* number of distinct relative paths in the indexed directory
MaxFiles == 2
\* largest batch handed to the coordinator
MaxBatch == 3
\* largest concurrency limit tried (the constructor's max_concurrent)
MaxConcurrent == 2
\* chunk_size of the progress loop; 50 in the source, scaled down so that a
\* batch of MaxBatch files spans more than one chunk
chunk_size == 2
\* largest number of retrieved summaries scored together
MaxCandidates == 3
\* most summaries in the store the router searches
MaxIndexed == 2
\* most completions with tool calls in one conversation
MaxTurns == 2
\* most tool calls in one completion
MaxToolCalls == 2
\* largest value of a query_patterns entry
MaxQueries == 2

\* the number of records of one collection.add call (100 in the code)
batch_size == 2

\* how many scratch directories tempfile.mkdtemp hands out
MaxArchives == 3
\* most records in a store whose summaries are regenerated
MaxRecords == 3
\* most files in a directory tree that is walked
MaxWalk == 2

Paths == 1..MaxFiles
\* two distinct file contents: enough to tell "same" from "different" content
Contents == {"v1", "v2"}

Range(s) == {s[i] : i \in DOMAIN s}

Min(a, b) == IF a <= b THEN a ELSE b

\* all orders in which a set of paths can be enumerated (os.walk gives the
\* directory entries in an order the file system chooses)
Orders(S) == {s \in [1..Cardinality(S) -> S] : Range(s) = S}

(***************************************************************************)
(* Texts.  A text (a summary, a query) is a sequence of fragments joined   *)
(* by single blanks.  For each fragment the model knows its length, its    *)
(* lower-case form and which of the strings the code looks for occur in    *)
(* it; none of those strings spans two fragments.                          *)
(***************************************************************************)
\* str.lower() of a fragment
LowerFragment(f) ==
    CASE f = "**Purpose:**" -> "**purpose:**"
      [] f = "PURPOSE:"     -> "purpose:"
      [] f = "Purpose:"     -> "purpose:"
      [] f = "Methods:"     -> "methods:"
      [] f = "How"          -> "how"
      [] f = "Class"        -> "class"
      [] f = "Configuration file - requires manual review for detailed analysis."
                            -> "configuration file - requires manual review for detailed analysis."
      [] OTHER              -> f

\* the proper substrings of a fragment among the strings the code searches for
Occurs(f) ==
    CASE f = "**Purpose:**" -> {"**", "Purpose:"}
      [] f = "**purpose:**" -> {"**", "purpose:"}
      [] f = "methods:"     -> {"method"}
      [] f = "multiple classes" -> {"class"}
      [] f = "configuration file - requires manual review for detailed analysis."
                            -> {"configuration"}
      [] OTHER              -> {}

\* len() of a fragment; "<prose>" stands for a passage of 1000 characters in
\* which none of the searched strings occurs
FragmentLen(f) ==
    CASE f = "<prose>"        -> 1000
      [] f = "**Purpose:**"   -> 12
      [] f = "**purpose:**"   -> 12
      [] f = "authentication" -> 14
      [] f \in {"PURPOSE:", "Purpose:", "purpose:", "Methods:", "methods:"} -> 8
      [] f \in {"handles"} -> 7
      [] f \in {"class", "Class", "login", "work?"} -> 5
      [] f = "does" -> 4
      [] f \in {"How", "how"} -> 3
      [] OTHER -> 1

\* text.lower()
Lower(text) == [i \in DOMAIN text |-> LowerFragment(text[i])]

\* the Python test "sub in text"
In(sub, text) == \E i \in DOMAIN text : sub = text[i] \/ sub \in Occurs(text[i])

RECURSIVE SumLen(_, _)
SumLen(text, i) == IF i = 0 THEN 0 ELSE FragmentLen(text[i]) + SumLen(text, i - 1)

\* len(text)
TextLen(text) == IF text = <<>> THEN 0 ELSE SumLen(text, Len(text)) + Len(text) - 1

(***************************************************************************)
(* SmartSummaryAgent._evaluate_summary_confidence.  The code computes in   *)
(* binary floating point; the model keeps every score as an exact multiple *)
(* of a fixed unit, so it does not see rounding in the last digit.         *)
(***************************************************************************)
markers == {"**", "purpose:", "methods:", "dependencies:", "use case:"}
code_keywords == {"class", "function", "method", "interface", "api", "endpoint",
                  "authentication", "database"}

\* summary.get('summary', '').lower()
SummaryText(summary) == Lower(summary.summary)

\* query_lower.split()
QueryWords(query) == Lower(query)

\* structure_score is set: the lower-cased summary contains a marker
HasMarkers(summary) == \E m \in markers : In(m, SummaryText(summary))

\* matching_words
MatchingWords(query, summary) ==
    Cardinality({i \in DOMAIN QueryWords(query) :
                    In(QueryWords(query)[i], SummaryText(summary))})

\* min(len(summary_text) / 1000, 1.0), in thousandths
LengthScore(summary) == Min(TextLen(SummaryText(summary)), 1000)

\* detail_score is set: the summary mentions a code keyword
HasCodeKeyword(summary) == \E k \in code_keywords : In(k, SummaryText(summary))

\* Scores of one query are kept as integers over fixed denominators: a
\* per-summary score counts units of 1 / ScoreDen(query), a confidence counts
\* units of 1 / ConfDen(query).
RECURSIVE Factorial(_)
Factorial(n) == IF n <= 1 THEN 1 ELSE n * Factorial(n - 1)

ScoreDen(query) == 10000 * (IF QueryWords(query) = <<>> THEN 1 ELSE Len(QueryWords(query)))
MeanDen(query) == ScoreDen(query) * Factorial(MaxCandidates)
ConfDen(query) == MeanDen(query) * 10

\* the confidence 1.0
One(query) == ConfDen(query)

\* summary_confidence = length_score * 0.3 + structure_score + relevance_score
\* * 0.2 + detail_score, in units of 1 / ScoreDen(query)
SummaryConfidence(query, summary) ==
    LET n == ScoreDen(query) \div 10000
    IN 3 * LengthScore(summary) * n
       + (IF HasMarkers(summary) THEN 4000 * n ELSE 0)
       + (IF QueryWords(query) = <<>> THEN 0 ELSE 2000 * MatchingWords(query, summary))
       + (IF HasCodeKeyword(summary) THEN 3000 * n ELSE 0)

RECURSIVE TotalConfidence(_, _, _)
TotalConfidence(query, summaries, i) ==
    IF i = 0 THEN 0
    ELSE SummaryConfidence(query, summaries[i]) + TotalConfidence(query, summaries, i - 1)

\* avg_confidence = total_confidence / len(summaries), in units of
\* 1 / MeanDen(query)
AvgConfidence(query, summaries) ==
    TotalConfidence(query, summaries, Len(summaries))
        * (Factorial(MaxCandidates) \div Len(summaries))

\* the test "len(summaries) > 1" inverted: the boost goes to a lone summary
Boost_Inverted(k) == IF k > 1 THEN 10 ELSE 12

\* "if len(summaries) > 1: avg_confidence *= 1.2": the factor, in tenths
Boost(k) == IF k > 1 THEN 12 ELSE 10

\* the cap applied before the boost instead of after it
Clamp_BeforeBoost(query, avg, boost) == Min(avg, MeanDen(query)) * boost

\* "avg_confidence *= boost; return min(avg_confidence, 1.0)", in units of
\* 1 / ConfDen(query)
Clamp(query, avg, boost) == Min(avg * boost, One(query))

\* _evaluate_summary_confidence(query, summaries)
EvaluateSummaryConfidence(query, summaries) ==
    IF summaries = <<>> THEN 0
    ELSE Clamp(query, AvgConfidence(query, summaries), Boost(Len(summaries)))

\* the dict CodeIndexer.search builds for a stored summary text
SearchKeys == {"file_path", "summary", "language", "file_type", "line_count",
               "complexity_score", "purpose"}
ResultDict(text) == [summary |-> text, keys |-> SearchKeys]

\* summary texts of the model
SummaryTexts ==
    { <<"**Purpose:**", "handles", "authentication", "class">>,
      <<"PURPOSE:", "handles", "login">>,
      <<"handles", "login">>,
      <<"**Purpose:**", "Class", "<prose>">>,
      <<"<prose>">>,
      <<"authentication", "class", "<prose>">> }

\* the summary texts of the store the router searches: a structured one
\* that mentions "authentication" and "class", one whose only marker is in
\* capitals, and an unstructured one
IndexedTexts ==
    { <<"**Purpose:**", "handles", "authentication", "class">>,
      <<"PURPOSE:", "handles", "login">>,
      <<"handles", "login">> }

\* queries of the model
Queries == { <<"How", "does", "authentication", "work?">>, <<"class">>, <<>> }

\* a further summary is retrieved and the confidence is evaluated again
AddSummary(text) ==
    /\ Len(cands) < MaxCandidates
    /\ cands' = Append(cands, ResultDict(text))
    /\ prev_conf' = conf
    /\ conf' = EvaluateSummaryConfidence(cquery, cands')
    /\ UNCHANGED <<cquery, storeVars, batchVars, routerVars, sideVars>>

ConfIdle ==
    /\ cquery = <<>>
    /\ cands = <<>>
    /\ conf = 0
    /\ prev_conf = 0

ConfInit ==
    /\ cquery \in Queries
    /\ cands = <<>>
    /\ conf = EvaluateSummaryConfidence(cquery, <<>>)
    /\ prev_conf = conf

(***************************************************************************)
(* The query router: SmartSummaryAgent (src/summary.py) over the indexed   *)
(* summaries, and its escalation to FileSummaryAssistant.query_code        *)
(* (src/repo_assistant.py).                                                *)
(***************************************************************************)
\* confidence_threshold of the constructor's signature, in hundredths
default_confidence_threshold == 60
\* the threshold of the example run at the end of summary.py, in hundredths
example_confidence_threshold == 80
\* the effective threshold when a structured summary was retrieved, in hundredths
structured_threshold == 40

\* thresholds an agent is constructed with
Thresholds == {0, default_confidence_threshold, example_confidence_threshold}

structured_indicators == {"**", "Methods:", "Dependencies:", "Use Case:", "Purpose:"}

\* the keys _build_summary_context subscripts (summary['...']) in each summary
SubscriptedKeys == {"summary", "file_path", "file_type", "language", "line_count",
                    "complexity_score", "keywords", "confidence_score", "category"}

\* get_indexed_codebase(): the singleton when there is one; otherwise a fresh
\* handle when connecting works and the collection holds data; otherwise None
GetIndexedCodebase(instance, connects) ==
    IF instance THEN "handle"
    ELSE IF connects /\ Len(indexed) > 0 THEN "handle"
    ELSE "none"

\* CodeIndexer.search(query, n_results): the n_results nearest stored
\* summaries, as result dicts
Search(query, n_results) ==
    [i \in 1..Min(n_results, Len(indexed)) |-> ResultDict(indexed[i])]

\* has_structured_summaries
HasStructuredSummaries(summary_results) ==
    \E i \in DOMAIN summary_results :
        \E indicator \in structured_indicators : In(indicator, summary_results[i].summary)

\* the lowered threshold also without a structured summary
EffectiveThreshold_AlwaysLowered(query, has_structured_summaries) ==
    structured_threshold * (ConfDen(query) \div 100)

\* effective_threshold, in units of 1 / ConfDen(query)
EffectiveThreshold(query, has_structured_summaries) ==
    (IF has_structured_summaries THEN structured_threshold ELSE confidence_threshold)
        * (ConfDen(query) \div 100)

\* "if confidence >= effective_threshold or has_structured_summaries"
ChoosesFastAnswer(query, confidence, has_structured_summaries) ==
    \/ confidence >= EffectiveThreshold(query, has_structured_summaries)
    \/ has_structured_summaries

\* what a call returns to its caller: a kind of text and what it was built from
Response(kind, of) == [kind |-> kind, of |-> of]
NoResponse == Response("", <<>>)

\* _build_summary_context followed by _generate_summary_response: the
\* formatted fields of the summaries, or the KeyError of a missing key
BuildSummaryContext(summaries) ==
    IF \E i \in DOMAIN summaries : ~(SubscriptedKeys \subseteq summaries[i].keys)
    THEN [raised |-> TRUE, value |-> NoResponse]
    ELSE [raised |-> FALSE,
          value |-> Response("Summary Response", [i \in DOMAIN summaries |-> summaries[i].summary])]

\* the handler of query_code lets the exception go to its caller
QueryCodeExcept_Reraises == [raised |-> TRUE, value |-> NoResponse]

\* query_code: "except Exception as e: return f'Error querying codebase: ...'"
QueryCodeExcept == [raised |-> FALSE, value |-> Response("Error querying codebase", <<>>)]

\* _fallback_to_repository once repo_assistant.query_code ended: its value, or
\* the final fallback message when it raised
FallbackToRepository(query_code_result) ==
    IF query_code_result.raised THEN Response("Repository Analysis", <<>>)
    ELSE query_code_result.value

\* the state of a call of query_with_summary_first
NoCall ==
    [query |-> <<>>, n |-> 0, confidence |-> 0, has_structured |-> FALSE,
     chosen |-> "none", ended |-> "idle", response |-> NoResponse,
     used_cache |-> FALSE, exc |-> "", caught |-> FALSE,
     entry_patterns |-> [q \in Queries |-> 0]]

Raise(call, exc) == [call EXCEPT !.ended = "raised", !.exc = exc]
Return(call, response, used_cache) ==
    [call EXCEPT !.ended = "returned", !.response = response, !.used_cache = used_cache]

\* messages of the conversation of query_code
Message(role, tool_calls, tool_call_id, content) ==
    [role |-> role, tool_calls |-> tool_calls, tool_call_id |-> tool_call_id,
     content |-> content]
NoId == <<0, 0>>

\* the function names a completion can put into a tool call: the two tools
\* query_code offers, and any other name
ToolNames == {"search_code", "get_file_content", "other"}

\* the result of a call is taken for the result of a tool, whatever its name
ToolResult_NameIgnored(tool_name) == "result"

\* the content of the tool message: what the named tool returned, or
\* f"Unknown tool: {tool_name}"
ToolResult(tool_name) ==
    IF tool_name \in {"search_code", "get_file_content"} THEN "result" ELSE "Unknown tool"

\* completions with tool calls received so far
Rounds == Cardinality({i \in DOMAIN messages : messages[i].role = "assistant"})

\* SmartSummaryAgent(openai_api_key, confidence_threshold): the handle, then
\* _init_repo_assistant
ConstructAgent(key, threshold, connects, connects_again, builds) ==
    /\ indexer = "unbuilt"
    /\ LET handle == GetIndexedCodebase(singleton, connects)
           assistant == /\ key
                        /\ builds
                        /\ GetIndexedCodebase(singleton \/ handle = "handle", connects_again) = "handle"
       IN /\ indexer' = handle
          /\ repo_assistant' = assistant
          /\ singleton' = (singleton \/ handle = "handle" \/ assistant)
    /\ confidence_threshold' = threshold
    /\ query_patterns' = [q \in Queries |-> 0]
    /\ UNCHANGED <<indexed, rq, messages, storeVars, batchVars, confVars, sideVars>>

\* query_with_summary_first(query, max_results) up to its return, its
\* exception, or the first completion request of the escalation
Query(query, max_results, search_ok) ==
    /\ indexer # "unbuilt"
    /\ rq.ended # "running"
    /\ query_patterns[query] < MaxQueries
    /\ LET call == [NoCall EXCEPT !.query = query, !.entry_patterns = query_patterns]
       IN IF indexer = "none"
          THEN /\ rq' = Raise(call, "AttributeError")
               /\ UNCHANGED <<query_patterns, messages>>
          ELSE IF ~search_ok
          THEN /\ rq' = Raise(call, "search failed")
               /\ UNCHANGED <<query_patterns, messages>>
          ELSE
            LET summary_results == Search(query, max_results)
                confidence == EvaluateSummaryConfidence(query, summary_results)
                has_structured_summaries == HasStructuredSummaries(summary_results)
                routed == [call EXCEPT !.n = Len(summary_results),
                                       !.confidence = confidence,
                                       !.has_structured = has_structured_summaries]
            IN IF ChoosesFastAnswer(query, confidence, has_structured_summaries)
               THEN LET context == BuildSummaryContext(summary_results)
                        fast == [routed EXCEPT !.chosen = "FAST_ANSWER"]
                    IN IF context.raised
                       THEN /\ rq' = Raise(fast, "KeyError")
                            /\ UNCHANGED <<query_patterns, messages>>
                       ELSE /\ query_patterns' = [query_patterns EXCEPT ![query] = @ + 1]
                            /\ rq' = Return(fast, context.value, TRUE)
                            /\ UNCHANGED messages
               ELSE LET escalated == [routed EXCEPT !.chosen = "ESCALATED"]
                    IN IF repo_assistant
                       THEN /\ rq' = [escalated EXCEPT !.ended = "running"]
                            /\ messages' = << Message("system", <<>>, NoId, "prompt"),
                                              Message("user", <<>>, NoId, "query") >>
                            /\ UNCHANGED query_patterns
                       ELSE /\ rq' = Return(escalated, Response("Repository Analysis", <<>>), FALSE)
                            /\ UNCHANGED <<query_patterns, messages>>
    /\ UNCHANGED <<indexed, singleton, indexer, repo_assistant, confidence_threshold,
                   storeVars, batchVars, confVars, sideVars>>

\* a completion request raises (transport, quota, ...)
CompletionRaises ==
    /\ rq.ended = "running"
    /\ rq' = Return([rq EXCEPT !.caught = TRUE], FallbackToRepository(QueryCodeExcept), FALSE)
    /\ messages' = <<>>
    /\ UNCHANGED <<indexed, singleton, indexer, repo_assistant, confidence_threshold,
                   query_patterns, storeVars, batchVars, confVars, sideVars>>

\* a completion without tool calls: query_code returns its content, which the
\* service may leave empty (None)
CompletionContent(content) ==
    /\ rq.ended = "running"
    /\ rq' = Return(rq, FallbackToRepository([raised |-> FALSE, value |-> Response(content, <<>>)]),
                    FALSE)
    /\ messages' = <<>>
    /\ UNCHANGED <<indexed, singleton, indexer, repo_assistant, confidence_threshold,
                   query_patterns, storeVars, batchVars, confVars, sideVars>>

\* a completion with tool calls of the given function names: the message is
\* appended, each call is answered by a tool message in call order, and the
\* next completion is requested; fail_at > 0 is the call at which decoding
\* the arguments or running the tool raises, which ends query_code and its
\* conversation
CompletionToolCalls(names, fail_at) ==
    /\ rq.ended = "running"
    /\ Rounds < MaxTurns
    /\ fail_at \in 0..Len(names)
    /\ LET round == Rounds + 1
           tool_calls == [i \in DOMAIN names |-> [id |-> <<round, i>>, name |-> names[i]]]
       IN IF fail_at = 0
          THEN /\ messages' = messages \o << Message("assistant", tool_calls, NoId, "") >>
                                  \o [i \in DOMAIN names |->
                                         Message("tool", <<>>, tool_calls[i].id,
                                                 ToolResult(tool_calls[i].name))]
               /\ rq' = rq
          ELSE /\ messages' = <<>>
               /\ rq' = Return([rq EXCEPT !.caught = TRUE],
                               FallbackToRepository(QueryCodeExcept), FALSE)
    /\ UNCHANGED <<indexed, singleton, indexer, repo_assistant, confidence_threshold,
                   query_patterns, storeVars, batchVars, confVars, sideVars>>

RouterIdle ==
    /\ indexed = <<>>
    /\ singleton = FALSE
    /\ indexer = "unbuilt"
    /\ repo_assistant = FALSE
    /\ confidence_threshold = default_confidence_threshold
    /\ query_patterns = [q \in Queries |-> 0]
    /\ rq = NoCall
    /\ messages = <<>>

(***************************************************************************)
(* The store: chromadb collection operations as the code uses them.        *)
(***************************************************************************)
\* hashlib.md5(relative_path.encode()).hexdigest(): a digest per path; distinct
\* paths of the model have distinct digests
Md5Digest(p) == (p * 7919) % 65521

\* index_file / regenerate_matching_summaries: summary_id = f"file_{md5(path)}";
\* the suffix is a 32-digit hexadecimal string
HashId(p) == <<"file_", "hex32", Md5Digest(p)>>

\* ingest_directory / add_summaries_to_vector_db: summary_id = f"file_{i}";
\* the suffix is the decimal position in the enumeration
PositionalId(i) == <<"file_", "decimal", i>>

Ids(coll) == {r.id : r \in coll}

\* collection.get(where={"file_path": p})["ids"]
IdsOfPath(coll, p) == {r.id : r \in {x \in coll : x.file_path = p}}

\* collection.delete(ids=...)
Delete(coll, ids) == {r \in coll : r.id \notin ids}

\* collection.add(ids, documents, metadatas): what the call can do.  An id that
\* the collection already holds is never overwritten: depending on the chromadb
\* release the call raises (DuplicateIDError) or silently skips that id.
AddOutcomes(coll, recs) ==
    IF Ids(recs) \cap Ids(coll) = {}
    THEN {[raised |-> FALSE, coll |-> coll \cup recs]}
    ELSE {[raised |-> TRUE, coll |-> coll],
          [raised |-> FALSE,
           coll |-> coll \cup {r \in recs : r.id \notin Ids(coll)}]}

\* the files os.walk collects: every file of the directory
Collected == {p \in DOMAIN disk : disk[p] # "absent"}

\* FileSummary(file_path, content).to_summary_text(): the stored document is
\* the summary made from the content that was read
Doc(c) == <<"summary of", c>>

Record(id, p, doc) == [id |-> id, file_path |-> p, doc |-> doc]

\* the records ingest_directory / add_summaries_to_vector_db build for the
\* summaries in enumeration order: the i-th summary gets id file_{i}
PositionalRecords(order) ==
    {Record(PositionalId(i - 1), order[i], Doc(disk[order[i]])) : i \in DOMAIN order}

(***************************************************************************)
(* The parallel summarization coordinator.                                 *)
(***************************************************************************)
N == Len(file_data)

\* what one summarization call can end with
CallOutcomes == {"status200", "statusNot200", "timeout", "exception"}

\* A summary text is modelled by its first words (head), the rest (tail) and
\* the file whose content the service was asked about (of; 0 for a text that
\* no service call produced).
Text(head, tail, of) == [head |-> head, tail |-> tail, of |-> of]

\* the summary the service returns for the request made for file_path
SummaryOf(file_path) == Text("Summary", "of the file", file_path)

\* what a coroutine hands to asyncio.gather: the pair it returned, or the
\* exception it raised
Returned(file_path, text) == [raised |-> FALSE, file_path |-> file_path, summary |-> text]
Raised(file_path) == [raised |-> TRUE, file_path |-> file_path, summary |-> Text("", "", 0)]
NoResult == [raised |-> FALSE, file_path |-> 0, summary |-> Text("", "", 0)]

\* generate_single_file_summary without its "except asyncio.TimeoutError"
\* clause: the timeout leaves the coroutine as an exception
SingleFileResult_TimeoutEscapes(file_path, outcome) ==
    CASE outcome = "status200"    -> Returned(file_path, SummaryOf(file_path))
      [] outcome = "statusNot200" ->
            Returned(file_path, Text("Error:", "Failed to generate summary (HTTP status)", 0))
      [] outcome = "timeout"      -> Raised(file_path)
      [] outcome = "exception"    ->
            Returned(file_path, Text("Error:", "str(e)", 0))

\* generate_single_file_summary: the (file_path, text) pair the coroutine
\* returns for each way its call can end
SingleFileResult(file_path, outcome) ==
    CASE outcome = "status200"    -> Returned(file_path, SummaryOf(file_path))
      [] outcome = "statusNot200" ->
            Returned(file_path, Text("Error:", "Failed to generate summary (HTTP status)", 0))
      [] outcome = "timeout"      ->
            Returned(file_path, Text("Error:", "Request timed out", 0))
      [] outcome = "exception"    ->
            Returned(file_path, Text("Error:", "str(e)", 0))

\* a coroutine that issues its request without looking at the semaphore
SemaphoreFree_Ignored == TRUE

\* "async with semaphore": a token is free
SemaphoreFree == semaphore > 0

\* the token stays taken when the call timed out
Release_LostOnTimeout(sem, outcome) == IF outcome = "timeout" THEN sem ELSE sem + 1

\* leaving the "async with semaphore" block gives the token back, however
\* the call inside ended: every exit of the block is a return
Release(sem, outcome) == sem + 1

\* the tasks of the chunk tasks[i:i + chunk_size]
ChunkOf(i) == {j \in 1..N : i <= j /\ j < i + chunk_size}

\* the calls in flight: request issued, result not yet returned
InFlight == {j \in DOMAIN task : task[j] = "inflight"}

\* results[file_path] = summary, for each result of the chunk in task order;
\* asyncio.gather gives an exception object for a coroutine that raised, and
\* the loop only logs those
Assign(res, r) ==
    {x \in res : x[1] # r.file_path} \cup {<<r.file_path, r.summary>>}

RECURSIVE StoreChunk(_, _, _)
StoreChunk(res, j, hi) ==
    IF j > hi THEN res
    ELSE StoreChunk(IF task_result[j].raised THEN res
                    ELSE Assign(res, task_result[j]), j + 1, hi)

\* generate_all_summaries_parallel is entered: the semaphore and the
\* coroutines are created and the first chunk is handed to asyncio.gather
BeginBatch(fd, by) ==
    /\ file_data' = fd
    /\ semaphore' = max_concurrent
    /\ task' = [j \in 1..Len(fd) |-> IF j < 1 + chunk_size THEN "waiting" ELSE "created"]
    /\ task_result' = [j \in 1..Len(fd) |-> NoResult]
    /\ call_outcome' = [j \in 1..Len(fd) |-> "pending"]
    /\ chunk_i' = 1
    /\ results' = {}
    /\ ai_summaries' = {}
    /\ caller' = by
    /\ bpc' = "running"

\* a direct call of generate_all_summaries_parallel(file_data).  For an
\* empty list the chunk loop has nothing to gather and the closing log line
\* divides total_time by len(results) = 0: the call ends with
\* ZeroDivisionError
StartBatch ==
    /\ bpc = "idle"
    /\ caller = "direct"
    /\ IF file_data = <<>>
       THEN /\ semaphore' = max_concurrent
            /\ bpc' = "raised"
            /\ UNCHANGED <<file_data, task, task_result, call_outcome, chunk_i,
                           results, ai_summaries, caller>>
       ELSE BeginBatch(file_data, "direct")
    /\ UNCHANGED <<storeVars, max_concurrent, confVars, routerVars, sideVars>>

\* a scheduled coroutine enters "async with semaphore" and issues its request;
\* waiters are served in the order the tasks were created
Acquire(j) ==
    /\ bpc = "running"
    /\ task[j] = "waiting"
    /\ \A k \in 1..(j - 1) : task[k] # "waiting"
    /\ SemaphoreFree
    /\ semaphore' = semaphore - 1
    /\ task' = [task EXCEPT ![j] = "inflight"]
    /\ UNCHANGED <<storeVars, confVars, routerVars, sideVars, file_data, max_concurrent, task_result, call_outcome,
                   chunk_i, results, ai_summaries, caller, bpc>>

\* the call of task j ends; the coroutine returns its pair and leaves the
\* "async with" block, which releases the token
Complete(j, outcome) ==
    /\ bpc = "running"
    /\ task[j] = "inflight"
    /\ call_outcome' = [call_outcome EXCEPT ![j] = outcome]
    /\ task_result' = [task_result EXCEPT ![j] = SingleFileResult(file_data[j], outcome)]
    /\ task' = [task EXCEPT ![j] = "done"]
    /\ semaphore' = Release(semaphore, outcome)
    /\ UNCHANGED <<storeVars, confVars, routerVars, sideVars, file_data, max_concurrent, chunk_i, results,
                   ai_summaries, caller, bpc>>

ChunkDone == \A j \in ChunkOf(chunk_i) : task[j] = "done"

\* asyncio.gather of the current chunk returns: its results are stored and
\* the next chunk is gathered
NextChunk ==
    /\ bpc = "running"
    /\ ChunkDone
    /\ chunk_i + chunk_size <= N
    /\ results' = StoreChunk(results, chunk_i, Min(chunk_i + chunk_size - 1, N))
    /\ chunk_i' = chunk_i + chunk_size
    /\ task' = [j \in 1..N |-> IF j \in ChunkOf(chunk_i + chunk_size)
                               THEN "waiting" ELSE task[j]]
    /\ UNCHANGED <<storeVars, confVars, routerVars, sideVars, file_data, max_concurrent, semaphore, task_result,
                   call_outcome, ai_summaries, caller, bpc>>

\* the last chunk is stored and the mapping is returned to a direct caller
ReturnBatch ==
    /\ bpc = "running"
    /\ caller = "direct"
    /\ ChunkDone
    /\ chunk_i + chunk_size > N
    /\ results' = StoreChunk(results, chunk_i, N)
    /\ ai_summaries' = results'
    /\ bpc' = "returned"
    /\ UNCHANGED <<storeVars, confVars, routerVars, sideVars, file_data, max_concurrent, semaphore, task,
                   task_result, call_outcome, chunk_i, caller>>

(***************************************************************************)
(* Store operations.                                                        *)
(***************************************************************************)
\* The "clear previous data" step of both ingestion methods: get + delete of
\* all ids ("deleted"); when that raises, delete_collection (its failure is
\* swallowed) and create_collection, which gives an empty collection
\* ("recreated").  After a failed delete_collection the collection may still
\* be there, and then create_collection raises ("raised": the exception
\* leaves the ingestion method).
ClearResults(get_delete_ok, delete_collection_ok) ==
    IF get_delete_ok THEN {"deleted"}
    ELSE IF delete_collection_ok THEN {"recreated"}
    ELSE {"recreated", "raised"}

ResetBatch ==
    /\ file_data' = <<>>
    /\ semaphore' = 0
    /\ task' = <<>>
    /\ task_result' = <<>>
    /\ call_outcome' = <<>>
    /\ chunk_i' = 1
    /\ results' = {}
    /\ ai_summaries' = {}
    /\ caller' = "ingest"
    /\ bpc' = "idle"

\* the clear step is left out
ClearPreviousData_Skipped(coll) == coll

\* what the clear step leaves of the collection when it does not raise
ClearPreviousData(coll) == Delete(coll, Ids(coll))

\* the collection.add calls all made at once
AddCalls_OneCall(order) == IF order = <<>> THEN <<>> ELSE <<[i \in DOMAIN order |-> PositionalId(i - 1)]>>

\* "for i in range(0, len(ids), batch_size)": the ids of each collection.add
\* call, the k-th call taking ids[(k-1)*batch_size : k*batch_size]
AddCalls(order) ==
    [k \in 1..((Len(order) + batch_size - 1) \div batch_size) |->
        [i \in 1..(Min(k * batch_size, Len(order)) - (k - 1) * batch_size) |->
            PositionalId((k - 1) * batch_size + i - 1)]]

\* the write of both ingestion methods: the records of the summaries, in
\* enumeration order, added to the cleared collection batch after batch; the
\* ids are new to the cleared collection, so the calls together add them all
WriteSummaries(order) ==
    \E out \in AddOutcomes(ClearPreviousData(collection), PositionalRecords(order)) :
        /\ ~out.raised
        /\ collection' = out.coll

\* CodeIndexer.ingest_directory: clear the collection, reset the caches, walk
\* the directory, summarize each file, add all records under positional ids.
IngestDirectory ==
    /\ bpc = "idle"
    /\ caller = "ingest"
    /\ \E get_delete_ok, delete_collection_ok \in BOOLEAN :
      \E clear \in ClearResults(get_delete_ok, delete_collection_ok) :
        IF clear = "raised"
        THEN /\ last' = [op |-> "ingest_directory", ok |-> FALSE, held |-> 0,
                          adds |-> <<>>, clear |-> clear]
             /\ UNCHANGED <<collection, file_contents, all_files>>
        ELSE \E order \in Orders(Collected) :
                /\ WriteSummaries(order)
                /\ file_contents' = [p \in DOMAIN disk |-> disk[p]]
                /\ all_files' = order
                /\ last' = [op |-> "ingest_directory", ok |-> TRUE,
                            held |-> Cardinality(collection),
                            adds |-> AddCalls(order), clear |-> clear]
    /\ UNCHANGED <<disk, openai_api_key, batchVars, confVars, routerVars, sideVars>>

\* CodeIndexer.ingest_directory_with_parallel_ai as the other store operations
\* see it: a synchronous call that clears, collects, obtains a summary text
\* for every collected file and writes.  The coordinator run inside it is
\* modelled step by step by IngestParallelStart .. IngestParallelFinish.
IngestDirectoryParallel ==
    /\ bpc = "idle"
    /\ caller = "ingest"
    /\ \E get_delete_ok, delete_collection_ok \in BOOLEAN :
      \E clear \in ClearResults(get_delete_ok, delete_collection_ok) :
        IF clear = "raised"
        THEN /\ last' = [op |-> "ingest_directory_with_parallel_ai", ok |-> FALSE, held |-> 0,
                          adds |-> <<>>, clear |-> clear]
             /\ UNCHANGED <<collection, file_contents, all_files>>
        ELSE \E order \in Orders(Collected) :
                /\ WriteSummaries(order)
                /\ file_contents' = [p \in DOMAIN disk |-> disk[p]]
                /\ all_files' = order
                /\ last' = [op |-> "ingest_directory_with_parallel_ai", ok |-> TRUE,
                            held |-> Cardinality(collection),
                            adds |-> AddCalls(order), clear |-> clear]
    /\ UNCHANGED <<disk, openai_api_key, batchVars, confVars, routerVars, sideVars>>

\* CodeIndexer.ingest_directory_with_parallel_ai up to the point where it
\* waits for generate_all_summaries_parallel; without files or without an API
\* key there is no batch and the method runs to its end
IngestParallelStart ==
    /\ bpc = "idle"
    /\ caller = "ingest"
    /\ \E get_delete_ok, delete_collection_ok \in BOOLEAN :
      \E clear \in ClearResults(get_delete_ok, delete_collection_ok) :
        IF clear = "raised"
        THEN /\ last' = [op |-> "ingest_directory_with_parallel_ai", ok |-> FALSE, held |-> 0,
                          adds |-> <<>>, clear |-> clear]
             /\ UNCHANGED <<collection, file_contents, all_files, batchVars>>
        ELSE \E order \in Orders(Collected) :
                /\ file_contents' = [p \in DOMAIN disk |-> disk[p]]
                /\ all_files' = order
                /\ IF order # <<>> /\ openai_api_key
                   THEN /\ collection' = ClearPreviousData(collection)
                        /\ BeginBatch(order, "ingest")
                        /\ last' = [op |-> "ingest_directory_with_parallel_ai (running)",
                                    ok |-> TRUE, held |-> 0, adds |-> <<>>,
                                    clear |-> clear]
                        /\ UNCHANGED max_concurrent
                   ELSE /\ WriteSummaries(order)
                        /\ last' = [op |-> "ingest_directory_with_parallel_ai", ok |-> TRUE,
                            held |-> Cardinality(collection),
                            adds |-> AddCalls(order), clear |-> clear]
                        /\ UNCHANGED batchVars
    /\ UNCHANGED <<disk, openai_api_key, confVars, routerVars, sideVars>>

\* the last chunk is stored, generate_all_summaries_parallel returns to
\* ingest_directory_with_parallel_ai, which builds the summaries and writes them
IngestParallelFinish ==
    /\ bpc = "running"
    /\ caller = "ingest"
    /\ ChunkDone
    /\ chunk_i + chunk_size > N
    /\ WriteSummaries(file_data)
    /\ last' = [op |-> "ingest_directory_with_parallel_ai", ok |-> TRUE, held |-> 0,
                adds |-> AddCalls(file_data), clear |-> last.clear]
    /\ ResetBatch
    /\ UNCHANGED <<disk, file_contents, all_files, openai_api_key, max_concurrent, confVars, routerVars, sideVars>>

\* CodeIndexer.index_file(file_path, force_reindex); add_ok is whether the
\* embedding request of collection.add succeeds.  Every exception is caught
\* by the enclosing try, after whatever the earlier steps did to the store
IndexFile(p, force_reindex, add_ok) ==
    /\ bpc = "idle"
    /\ caller = "ingest"
    /\ IF disk[p] = "absent"
       THEN /\ last' = [op |-> "index_file", ok |-> FALSE, held |-> 0, adds |-> <<>>, clear |-> "none"]
            /\ UNCHANGED <<collection, file_contents, all_files>>
       ELSE   LET removed == IF force_reindex
                             THEN Delete(collection, IdsOfPath(collection, p))
                             ELSE collection
                  rec == Record(HashId(p), p, Doc(disk[p]))
              IN \E out \in IF add_ok THEN AddOutcomes(removed, {rec})
                              ELSE {[raised |-> TRUE, coll |-> removed]} :
                   /\ collection' = out.coll
                   /\ IF out.raised
                      THEN /\ last' = [op |-> "index_file", ok |-> FALSE, held |-> 0, adds |-> <<>>, clear |-> "none"]
                           /\ UNCHANGED <<file_contents, all_files>>
                      ELSE /\ file_contents' = [file_contents EXCEPT ![p] = disk[p]]
                           /\ all_files' = IF p \in Range(all_files)
                                           THEN all_files
                                           ELSE Append(all_files, p)
                           /\ last' = [op |-> "index_file", ok |-> TRUE, held |-> 0, adds |-> <<>>, clear |-> "none"]
    /\ UNCHANGED <<disk, openai_api_key, batchVars, confVars, routerVars, sideVars>>

\* the user edits, creates or removes a file of the directory between runs
EditFile(p, c) ==
    /\ bpc = "idle"
    /\ disk[p] # c
    /\ disk' = [disk EXCEPT ![p] = c]
    /\ UNCHANGED <<collection, file_contents, all_files, openai_api_key, last, batchVars, confVars, routerVars, sideVars>>

(***************************************************************************)
(* Regeneration of all summaries: SmartSummaryAgent                        *)
(* .regenerate_all_summaries_with_ai (src/summary.py) and                  *)
(* regenerate_all_summaries (src/view_summaries.py).                       *)
(***************************************************************************)
\* how a regeneration ended: ok is the value regenerate_all_summaries_with_ai
\* returned; for regenerate_all_summaries it is false when the function
\* returned 0 from its "except Exception" clause
Regenerated(op, ok) == [op |-> op, ok |-> ok, held |-> 0, adds |-> <<>>, clear |-> "none"]

\* SmartSummaryAgent.regenerate_all_summaries_with_ai of an agent whose
\* indexer is set or not and that has an API key or not.  delete_ok: whether
\* collection.delete succeeds; root_exists: whether a directory
\* data/repositories/<first path component> exists; connects: whether
\* CodeIndexer(...) can be constructed.  Either ingestion method clears,
\* collects and writes the same records.
RegenerateAllSummariesWithAi(has_indexer, key, delete_ok, root_exists, connects) ==
    /\ bpc = "idle"
    /\ caller = "ingest"
    /\ IF ~has_indexer \/ ~key \/ collection = {} \/ ~delete_ok
       THEN /\ last' = Regenerated("regenerate_all_summaries_with_ai", FALSE)
            /\ UNCHANGED <<collection, file_contents, all_files>>
       ELSE IF ~root_exists \/ ~connects
       THEN /\ collection' = Delete(collection, Ids(collection))
            /\ last' = Regenerated("regenerate_all_summaries_with_ai", FALSE)
            /\ UNCHANGED <<file_contents, all_files>>
       ELSE \E get_delete_ok, delete_collection_ok \in BOOLEAN :
             \E clear \in ClearResults(get_delete_ok, delete_collection_ok) :
               IF clear = "raised"
               THEN /\ collection' = Delete(collection, Ids(collection))
                    /\ last' = Regenerated("regenerate_all_summaries_with_ai", FALSE)
                    /\ UNCHANGED <<file_contents, all_files>>
               ELSE \E order \in Orders(Collected) :
                      /\ WriteSummaries(order)
                      /\ file_contents' = [p \in DOMAIN disk |-> disk[p]]
                      /\ all_files' = order
                      /\ last' = Regenerated("regenerate_all_summaries_with_ai", TRUE)
    /\ UNCHANGED <<disk, openai_api_key, batchVars, confVars, routerVars, sideVars>>

\* the sequential loop of regenerate_all_summaries: index_file(file_path,
\* force_reindex=True) for the file of every stored record that exists, in
\* the order collection.get lists the records; add_oks[i] is whether the
\* embedding request of the i-th call succeeds.  st is the store and the
\* caches of the indexer.
RECURSIVE ReindexEach(_, _, _)
ReindexEach(st, file_paths, add_oks) ==
    IF file_paths = <<>> THEN st
    ELSE LET p == Head(file_paths)
             removed == Delete(st.coll, IdsOfPath(st.coll, p))
             after ==
                IF disk[p] = "absent" THEN st
                ELSE IF ~Head(add_oks) THEN [st EXCEPT !.coll = removed]
                ELSE [coll |-> removed \cup {Record(HashId(p), p, Doc(disk[p]))},
                      contents |-> [st.contents EXCEPT ![p] = disk[p]],
                      files |-> IF p \in Range(st.files) THEN st.files
                                ELSE Append(st.files, p)]
         IN ReindexEach(after, Tail(file_paths), Tail(add_oks))

\* view_summaries.regenerate_all_summaries(indexer, use_parallel) for an
\* indexer that is set.  get_ok: whether get_collection and collection.get
\* succeed; delete_ok, connects: as above.  In the parallel branch the k-th
\* collection.add call of add_summaries_to_vector_db may raise (failed_call =
\* k), after the calls before it wrote their records.  The parallel branch
\* writes one record per stored record, so a store that index_file adds to
\* between regenerations grows without limit; the model stops at MaxRecords.
RegenerateAllSummaries(use_parallel, get_ok, delete_ok, connects) ==
    /\ bpc = "idle"
    /\ caller = "ingest"
    /\ Cardinality(collection) <= MaxRecords
    /\ IF ~get_ok
       THEN /\ last' = Regenerated("regenerate_all_summaries", FALSE)
            /\ UNCHANGED <<collection, file_contents, all_files>>
       ELSE \E listed \in Orders(collection) :
            LET file_paths == [i \in DOMAIN listed |-> listed[i].file_path]
            IN IF use_parallel
               THEN LET valid_files == SelectSeq(file_paths, LAMBDA p : disk[p] # "absent")
                    IN IF valid_files = <<>>
                       THEN /\ last' = Regenerated("regenerate_all_summaries", TRUE)
                            /\ UNCHANGED <<collection, file_contents, all_files>>
                       ELSE IF ~delete_ok
                       THEN /\ last' = Regenerated("regenerate_all_summaries", FALSE)
                            /\ UNCHANGED <<collection, file_contents, all_files>>
                       ELSE IF ~connects
                       THEN /\ collection' = Delete(collection, Ids(collection))
                            /\ last' = Regenerated("regenerate_all_summaries", FALSE)
                            /\ UNCHANGED <<file_contents, all_files>>
                       ELSE \E failed_call \in 0..Len(AddCalls(valid_files)) :
                              /\ collection' =
                                    IF failed_call = 0 THEN PositionalRecords(valid_files)
                                    ELSE PositionalRecords(
                                            SubSeq(valid_files, 1, (failed_call - 1) * batch_size))
                              /\ last' = Regenerated("regenerate_all_summaries", failed_call = 0)
                              /\ UNCHANGED <<file_contents, all_files>>
               ELSE \E add_oks \in [DOMAIN file_paths -> BOOLEAN] :
                      LET st == ReindexEach([coll |-> collection, contents |-> file_contents,
                                             files |-> all_files], file_paths, add_oks)
                      IN /\ collection' = st.coll
                         /\ file_contents' = st.contents
                         /\ all_files' = st.files
                         /\ last' = Regenerated("regenerate_all_summaries", TRUE)
    /\ UNCHANGED <<disk, openai_api_key, batchVars, confVars, routerVars, sideVars>>

(***************************************************************************)
(* One file summary: FileSummary (src/code_indexer.py) as the sequential   *)
(* ingestion builds it (create_file_summary) and as the parallel ingestion *)
(* builds it (create_file_summary_with_ai_insights), and the record both   *)
(* store for it.                                                           *)
(***************************************************************************)
\* file extensions of the model; ".rst" is one the language map does not know
Exts == {".py", ".js", ".json", ".yaml", ".yml", ".xml", ".toml", ".ini", ".cfg",
         ".md", ".sql", ".dockerfile", ".rst"}

\* len(content.split('\n')) of the files of the model
LineCounts == {1, 30, 400}

\* contents of the model: some text, or white space only
FileContents == {"text", "blank"}

\* FileSummary._detect_language: language_map.get(ext, 'text')
DetectLanguage(ext) ==
    CASE ext = ".py"         -> "python"
      [] ext = ".js"         -> "javascript"
      [] ext = ".json"       -> "json"
      [] ext = ".md"         -> "markdown"
      [] ext = ".yml"        -> "yaml"
      [] ext = ".yaml"       -> "yaml"
      [] ext = ".xml"        -> "xml"
      [] ext = ".sql"        -> "sql"
      [] ext = ".dockerfile" -> "docker"
      [] ext = ".toml"       -> "toml"
      [] ext = ".ini"        -> "ini"
      [] ext = ".cfg"        -> "config"
      [] OTHER               -> "text"

\* str.title() of a language name
Title(language) ==
    CASE language = "python"     -> "Python"
      [] language = "javascript" -> "Javascript"
      [] language = "json"       -> "Json"
      [] language = "markdown"   -> "Markdown"
      [] language = "yaml"       -> "Yaml"
      [] language = "xml"        -> "Xml"
      [] language = "sql"        -> "Sql"
      [] language = "docker"     -> "Docker"
      [] language = "toml"       -> "Toml"
      [] language = "ini"        -> "Ini"
      [] language = "config"     -> "Config"
      [] OTHER                   -> "Text"

\* FileSummary._fallback_basic_analysis: the sentence stating language and
\* line count, followed by the elaboration for the kind of file
FallbackBasicAnalysis(language, line_count, content) ==
    <<"Basic analysis:", Title(language), "file with", ToString(line_count), "lines.">>
    \o (IF language \in {"json", "yaml", "toml"}
        THEN <<"Configuration file - requires manual review for detailed analysis.">>
        ELSE IF language = "markdown"
        THEN (IF content = "blank" THEN <<>>
              ELSE <<"Documentation starting with:", "<first lines>", "...">>)
        ELSE IF language \in {"python", "javascript", "java"}
        THEN <<"Code file - basic structure analysis available but AI summary recommended.">>
        ELSE <<"Text-based file - content analysis requires manual review.">>)

\* the chain with the test for 'class' alone ahead of the test for both words
FileType_ClassFirst(language, ai_summary) ==
    LET summary_lower == Lower(ai_summary)
    IN IF language \in {"json", "yaml", "xml", "toml", "ini", "cfg"} THEN "configuration"
       ELSE IF language = "markdown" THEN "documentation"
       ELSE IF In("class", summary_lower) THEN "class_based"
       ELSE IF In("function", summary_lower) THEN "functional"
       ELSE IF language = "sql" THEN "database"
       ELSE IF language = "docker" THEN "container"
       ELSE "script"

\* the file_type chain of _extract_metadata_from_summary
FileType(language, ai_summary) ==
    LET summary_lower == Lower(ai_summary)
    IN IF language \in {"json", "yaml", "xml", "toml", "ini", "cfg"} THEN "configuration"
       ELSE IF language = "markdown" THEN "documentation"
       ELSE IF In("class", summary_lower) /\ In("function", summary_lower) THEN "mixed_code"
       ELSE IF In("class", summary_lower) THEN "class_based"
       ELSE IF In("function", summary_lower) THEN "functional"
       ELSE IF language = "sql" THEN "database"
       ELSE IF language = "docker" THEN "container"
       ELSE "script"

\* purpose = sentences[0].strip() + '.': the first sentence of the text
FirstSentence(ai_summary) == [how |-> "first sentence", of |-> ai_summary]

\* purpose = line.split(':', 1)[1].strip() of the first line with 'purpose'
PurposeLine(ai_summary) == [how |-> "purpose line", of |-> ai_summary]

complexity_indicators ==
    << <<"multiple classes", 5>>, <<"inheritance", 3>>, <<"design pattern", 4>>,
       <<"algorithm", 3>>, <<"database", 2>>, <<"api", 2>>, <<"authentication", 3>>,
       <<"configuration", 1>>, <<"complex logic", 4>>, <<"state management", 3>>,
       <<"async", 2>>, <<"threading", 4>>, <<"security", 2>>, <<"performance", 2>> >>

RECURSIVE IndicatorScore(_, _)
IndicatorScore(summary_lower, i) ==
    IF i = 0 THEN 0
    ELSE (IF In(complexity_indicators[i][1], summary_lower)
          THEN complexity_indicators[i][2] ELSE 0)
         + IndicatorScore(summary_lower, i - 1)

\* FileSummary._calculate_ai_complexity
CalculateAiComplexity(line_count, ai_summary) ==
    Min(Min(line_count \div 25, 15)
        + IndicatorScore(Lower(ai_summary), Len(complexity_indicators)), 25)

\* a FileSummary object
EmptySummary(ext, line_count, content) ==
    [ext |-> ext, content |-> content, language |-> DetectLanguage(ext),
     line_count |-> line_count, ai_summary |-> <<>>,
     purpose |-> [how |-> "", of |-> <<>>], file_type |-> "unknown",
     complexity_score |-> 0, ai_generated |-> FALSE]

\* FileSummary._extract_metadata_from_summary
ExtractMetadataFromSummary(summary) ==
    [summary EXCEPT !.file_type = FileType(summary.language, summary.ai_summary),
                    !.purpose = FirstSentence(summary.ai_summary),
                    !.complexity_score =
                        CalculateAiComplexity(summary.line_count, summary.ai_summary)]

\* FileSummary._generate_ai_summary: the text of the service when there is a
\* client and the call works, the basic analysis otherwise
GenerateAiSummary(summary, client, call_ok, service_text) ==
    [summary EXCEPT !.ai_summary =
        IF client /\ call_ok THEN service_text
        ELSE FallbackBasicAnalysis(summary.language, summary.line_count, summary.content)]

\* FileSummary(file_path, content, openai_client=...), as create_file_summary
\* calls it
NewFileSummary(ext, line_count, content, client, call_ok, service_text) ==
    ExtractMetadataFromSummary(
        GenerateAiSummary(EmptySummary(ext, line_count, content), client, call_ok, service_text))

\* FileSummary.create_basic_summary
CreateBasicSummary(ext, line_count, content) ==
    ExtractMetadataFromSummary(
        GenerateAiSummary(EmptySummary(ext, line_count, content), FALSE, FALSE, <<>>))

\* CodeIndexer.create_file_summary_with_ai_insights
CreateFileSummaryWithAiInsights(ext, line_count, content, ai_summary) ==
    LET basic_summary == CreateBasicSummary(ext, line_count, content)
    IN [basic_summary EXCEPT
          !.ai_summary = ai_summary,
          !.ai_generated = TRUE,
          !.purpose = IF In("purpose:", Lower(ai_summary)) THEN PurposeLine(ai_summary)
                      ELSE basic_summary.purpose]

\* summary texts the service returns in the model
ServiceTexts ==
    { <<"Defines", "a", "Class", "and", "a", "function">>,
      <<"Defines", "a", "class">>,
      <<"Defines", "a", "function">>,
      <<"Stores", "settings">>,
      <<"Purpose:", "creates", "tables">>,
      <<"multiple classes", "authentication", "api", "database", "threading",
        "design pattern">> }

\* the text ingest_directory_with_parallel_ai has for a file in step 3:
\* ai_summaries.get(file_path, "No AI summary available"), where ai_summaries
\* is empty without an API key and otherwise holds what the file's coroutine
\* returned
ParallelSummaryText(key, outcome, service_text) ==
    IF ~key THEN <<"No AI summary available">>
    ELSE LET summary == SingleFileResult(1, outcome).summary
         IN IF summary.of # 0 THEN service_text ELSE <<summary.head, summary.tail>>

\* the document and the metadata that collection.add receives for a summary
StoredRecord(summary) ==
    [document |-> summary.ai_summary, language |-> summary.language,
     file_type |-> summary.file_type, line_count |-> summary.line_count,
     complexity_score |-> summary.complexity_score, purpose |-> summary.purpose]

\* the state of the summary part (one file, summarized once): how the file
\* was summarized (via, "none" before), what
\* the service did, the text _extract_metadata_from_summary ran on, the
\* FileSummary object and the stored record
Summarized(via, service, analysed, summary) ==
    [via |-> via, service |-> service, analysed |-> analysed, summary |-> summary,
     record |-> StoredRecord(summary)]

\* ingest_directory or index_file summarizes a file (create_file_summary) and
\* stores its record
SummarizeSequential(ext, line_count, content, client, call_ok, service_text) ==
    /\ fsum.via = "none"
    /\ LET summary == NewFileSummary(ext, line_count, content, client, call_ok, service_text)
       IN fsum' = Summarized("sequential",
                             IF ~client THEN "unavailable"
                             ELSE IF call_ok THEN "ok" ELSE "failed",
                             summary.ai_summary, summary)
    /\ UNCHANGED <<storeVars, batchVars, confVars, routerVars, archiveVars, toolVars, walkVars>>

\* ingest_directory_with_parallel_ai builds the summary of a collected file
\* (whose content is not blank) from the text of step 2 and stores its record
SummarizeParallel(ext, line_count, key, outcome, service_text) ==
    /\ fsum.via = "none"
    /\ LET ai_summary == ParallelSummaryText(key, outcome, service_text)
           summary == CreateFileSummaryWithAiInsights(ext, line_count, "text", ai_summary)
       IN fsum' = Summarized("parallel",
                             IF ~key THEN "unavailable"
                             ELSE IF outcome = "status200" THEN "ok" ELSE "failed",
                             CreateBasicSummary(ext, line_count, "text").ai_summary, summary)
    /\ UNCHANGED <<storeVars, batchVars, confVars, routerVars, archiveVars, toolVars, walkVars>>

(***************************************************************************)
(* Archive inputs: extraction to a scratch directory and its removal.      *)
(* What the ingestion in between does to the store is the store's part;    *)
(* here it only returns or raises.                                         *)
(***************************************************************************)

\* what the path given as the archive is
Archives == {"zip", "corrupt", "missing"}

\* the directory the n-th call of tempfile.mkdtemp creates
TempDir(n) == [kind |-> "tmp", n |-> n]

\* <dirname of the archive>/extracted_repos/<stem of the archive>
ExtractedRepos == [kind |-> "extracted_repos", n |-> 0]

NoDir == [kind |-> "none", n |-> 0]

\* CodeIndexer.extract_zip: the scratch directory is made first, then the
\* archive is opened and extracted, which raises for a path that is not a
\* readable zip file; the effective root is the single directory entry of
\* the archive's root when there is exactly one
ExtractZip(dirs, n, archive, wrapped) ==
    [dirs      |-> dirs \cup {TempDir(n)},
     raised    |-> archive # "zip",
     temp_dir  |-> TempDir(n),
     repo_path |-> IF wrapped THEN "wrapper" ELSE "temp_dir"]

ZipCall(flow, pc, dir, repo_path) ==
    [flow |-> flow, pc |-> pc, dir |-> dir, repo_path |-> repo_path]

\* ingest_zip up to the call of ingest_directory
IngestZipExtract(archive, wrapped) ==
    LET x == ExtractZip(scratch, made + 1, archive, wrapped) IN
    /\ zcall.pc \in {"idle", "returned", "raised"}
    /\ made < MaxArchives
    /\ made' = made + 1
    /\ scratch' = x.dirs
    /\ zcall' = IF x.raised
                THEN ZipCall("ingest_zip", "raised", x.temp_dir, "none")
                ELSE ZipCall("ingest_zip", "extracted", x.temp_dir, x.repo_path)
    /\ UNCHANGED <<storeVars, batchVars, confVars, routerVars, summaryVars, toolVars, walkVars>>

\* the zip branch of the chatbot's parallel flow up to the call of
\* ingest_directory_with_parallel_ai: a missing archive is reported before
\* anything is extracted
ChatbotZipExtract(archive, wrapped) ==
    LET x == ExtractZip(scratch, made + 1, archive, wrapped) IN
    /\ zcall.pc \in {"idle", "returned", "raised"}
    /\ made < MaxArchives
    /\ IF archive = "missing"
       THEN /\ zcall' = ZipCall("chatbot", "returned", NoDir, "none")
            /\ UNCHANGED <<scratch, made>>
       ELSE /\ made' = made + 1
            /\ scratch' = x.dirs
            /\ zcall' = IF x.raised
                        THEN ZipCall("chatbot", "raised", x.temp_dir, "none")
                        ELSE ZipCall("chatbot", "extracted", x.temp_dir, x.repo_path)
    /\ UNCHANGED <<storeVars, batchVars, confVars, routerVars, summaryVars, toolVars, walkVars>>

\* the ingestion of the extracted tree returns or raises, and the finally
\* clause removes the scratch directory
IngestExtracted(ingest_ok) ==
    /\ zcall.pc = "extracted"
    /\ zcall.flow \in {"ingest_zip", "chatbot"}
    /\ scratch' = scratch \ {zcall.dir}
    /\ zcall' = [zcall EXCEPT !.pc = IF ingest_ok THEN "returned" ELSE "raised"]
    /\ UNCHANGED <<made>>
    /\ UNCHANGED <<storeVars, batchVars, confVars, routerVars, summaryVars, toolVars, walkVars>>

\* RepositoryIngestor.ingest_repository for a path ending in .zip: the
\* extraction directory is made (or found) under extracted_repos, the archive
\* is extracted into it and the tree is chunked; unreadable files are skipped
IngestRepository(archive, wrapped) ==
    /\ zcall.pc \in {"idle", "returned", "raised"}
    /\ scratch' = scratch \cup {ExtractedRepos}
    /\ zcall' = IF archive # "zip"
                THEN ZipCall("ingest_repository", "raised", ExtractedRepos, "none")
                ELSE ZipCall("ingest_repository", "returned", ExtractedRepos,
                             IF wrapped THEN "wrapper" ELSE "temp_dir")
    /\ UNCHANGED <<made>>
    /\ UNCHANGED <<storeVars, batchVars, confVars, routerVars, summaryVars, toolVars, walkVars>>

ArchiveIdle ==
    /\ scratch = {}
    /\ made = 0
    /\ zcall = ZipCall("none", "idle", NoDir, "none")

(***************************************************************************)
(* The tool surface of mcp_server: five request/response tools over the    *)
(* indexer handle the module keeps.                                        *)
(***************************************************************************)

\* a tool call: how it ended and which of its strings it returned
ToolCall(tool, outcome, reply) == [tool |-> tool, outcome |-> outcome, reply |-> reply]

\* "global indexer; if not indexer: indexer = get_indexed_codebase()": the
\* handle the module holds, else the singleton of the process that
\* ingested, else a fresh handle on a store that holds data, else None
ToolIndexer(connects) ==
    IF mcp_indexer # "none" THEN mcp_indexer
    ELSE IF singleton THEN "ingestor"
    ELSE IF GetIndexedCodebase(singleton, connects) = "handle" THEN "fresh"
    ELSE "none"

\* the first lines every tool shares, then the rest of the tool, which ends
\* as "call" says; a fresh handle has read no file
WithIndexer(tool, connects, call) ==
    LET handle == ToolIndexer(connects) IN
    /\ mcp_indexer' = handle
    /\ singleton' = (singleton \/ handle # "none")
    /\ tcall' = IF handle = "none"
                THEN ToolCall(tool, "returned", "No codebase has been indexed yet")
                ELSE call
    /\ UNCHANGED <<indexed, indexer, repo_assistant, confidence_threshold,
                   query_patterns, rq, messages>>
    /\ UNCHANGED <<storeVars, batchVars, confVars, summaryVars, archiveVars, walkVars>>

\* search_code(query, max_results)
SearchCode(query, max_results, connects, search_ok) ==
    LET call ==
            IF ~search_ok THEN ToolCall("search_code", "raised", "none")
            ELSE IF Len(Search(query, max_results)) = 0
            THEN ToolCall("search_code", "returned", "No relevant files found")
            ELSE ToolCall("search_code", "returned", "Found relevant files")
    IN WithIndexer("search_code", connects, call)

\* explain_function and explain_class after the handle is there: search for
\* "def <name>" / "class <name>" with 10 results, then parse result['content']
\* of each result looking for a definition of that name; only SyntaxError is
\* caught in the loop, so a result without the key 'content' ends the call
\* with KeyError
ExplainLookup(tool, query, search_ok, defined) ==
    LET found == Search(query, 10) IN
    IF ~search_ok THEN ToolCall(tool, "raised", "none")
    ELSE IF Len(found) = 0 THEN ToolCall(tool, "returned", "not found in the codebase")
    ELSE IF "content" \notin found[1].keys THEN ToolCall(tool, "raised", "KeyError")
    ELSE IF defined THEN ToolCall(tool, "returned", "explanation")
    ELSE ToolCall(tool, "returned", "potential matches")

\* explain_function(function_name)
ExplainFunction(function_name, connects, search_ok, defined) ==
    LET call ==
            ExplainLookup("explain_function", <<"def">> \o function_name, search_ok, defined)
    IN WithIndexer("explain_function", connects, call)

\* explain_class(class_name)
ExplainClass(class_name, connects, search_ok, defined) ==
    LET call ==
            ExplainLookup("explain_class", <<"class">> \o class_name, search_ok, defined)
    IN WithIndexer("explain_class", connects, call)

\* get_file_content(file_path), the request being the path p itself (exact)
\* or a part of it
GetFileContent(p, exact, connects) ==
    LET handle == ToolIndexer(connects)
        call ==
            IF handle = "ingestor" /\ exact /\ file_contents[p] # "absent"
            THEN ToolCall("get_file_content", "returned", "Content of")
            ELSE IF handle = "ingestor" /\ p \in Range(all_files)
            THEN ToolCall("get_file_content", "returned", "Did you mean one of these?")
            ELSE ToolCall("get_file_content", "returned", "not found in the codebase")
    IN WithIndexer("get_file_content", connects, call)

\* list_project_structure()
ListProjectStructure(connects) ==
    LET handle == ToolIndexer(connects)
        call ==
            IF handle = "ingestor" /\ Len(all_files) > 0
            THEN ToolCall("list_project_structure", "returned", "Project Structure")
            ELSE ToolCall("list_project_structure", "returned", "No files found in the codebase.")
    IN WithIndexer("list_project_structure", connects, call)

ToolsIdle ==
    /\ mcp_indexer = "none"
    /\ tcall = ToolCall("none", "returned", "none")

SummaryIdle ==
    fsum = Summarized("none", "none", <<>>, EmptySummary(".py", 1, "text"))

(***************************************************************************)
(* Collecting the files of a directory: the os.walk loops of               *)
(* ingest_directory and ingest_directory_with_parallel_ai.  A file is at   *)
(* <dir>/main<suffix> below the directory that is ingested; the path of    *)
(* that directory itself has no ignored component.                         *)
(***************************************************************************)
IGNORE_PATTERNS ==
    {".DS_Store", ".env", ".git", ".gitignore", ".vscode", ".idea",
     "__pycache__", ".pytest_cache", "node_modules", ".npm",
     ".Trash", ".Spotlight-V100", ".fseventsd", ".DocumentRevisions-V100",
     ".TemporaryItems", ".apdisk", "Thumbs.db", "Desktop.ini"}

CODE_EXTENSIONS ==
    {".py", ".js", ".ts", ".jsx", ".tsx", ".java", ".cpp", ".c", ".h",
     ".cs", ".php", ".rb", ".go", ".rs", ".swift", ".kt", ".scala",
     ".sh", ".bash", ".zsh", ".ps1", ".sql", ".html", ".css", ".scss",
     ".less", ".xml", ".json", ".yaml", ".yml", ".toml", ".ini", ".cfg",
     ".md", ".rst", ".txt", ".dockerfile", ".makefile", ".cmake"}

\* directories, suffixes and contents of the files of the model
WalkDirs == {"src", "node_modules", "__MACOSX"}
WalkSuffixes == {".py", ".PY", ".pyc"}
WalkContents == {"x = 1\n", " \n", ""}

\* Path(file_path).suffix.lower()
SuffixLower(suffix) == IF suffix = ".PY" THEN ".py" ELSE suffix

\* content.strip()
Strip(content) == IF content \in {" \n", ""} THEN "" ELSE "x = 1"

\* os.path.relpath(file_path, directory_path)
RelativePath(f) == <<f.dir, "main", f.suffix>>

\* the files a directory can hold
WalkFiles ==
    [dir : WalkDirs, suffix : WalkSuffixes, content : WalkContents, readable : BOOLEAN]

\* the directory trees of the model: at most MaxWalk files, no two at the
\* same path
RECURSIVE TreesUpTo(_)
TreesUpTo(n) ==
    IF n = 0 THEN {{}}
    ELSE LET smaller == TreesUpTo(n - 1)
         IN smaller \cup
            {t \cup {f} : <<t, f>> \in
                {tf \in smaller \X WalkFiles :
                    \A g \in tf[1] : RelativePath(g) # RelativePath(tf[2])}}
Trees == TreesUpTo(MaxWalk)

\* should_ignore(path): some part of the path is an ignore pattern
ShouldIgnore(f) == \E part \in {f.dir, "main" \o f.suffix} : part \in IGNORE_PATTERNS

\* is_code_file(file_path)
IsCodeFile(f) == SuffixLower(f.suffix) \in CODE_EXTENSIONS

\* "'__MACOSX' in relative_path"
InMacosx(f) == f.dir = "__MACOSX"

\* the walk of ingest_directory: the directories that should_ignore rejects
\* are pruned, the ignored files and the files that are no code files are
\* skipped, and so is a file that cannot be read
CollectSequential(tree) ==
    {f \in tree : ~ShouldIgnore(f) /\ IsCodeFile(f) /\ f.readable}

\* the walk of ingest_directory_with_parallel_ai: as above, and it skips
\* the paths that contain __MACOSX and the files whose content is blank
CollectParallel(tree) ==
    {f \in tree : /\ ~(ShouldIgnore(f) \/ ~IsCodeFile(f) \/ InMacosx(f))
                  /\ f.readable
                  /\ Strip(f.content) # ""}

\* what one ingestion method did on the tree: the paths it returned
\* (indexed_files) and the paths of the records it wrote
NotWalked == [ran |-> FALSE, indexed_files |-> {}, written |-> {}]
Walked(files) ==
    [ran |-> TRUE, indexed_files |-> {RelativePath(f) : f \in files},
     written |-> {RelativePath(f) : f \in files}]

\* ingest_directory(directory_path) on the tree
WalkSequential ==
    /\ ~walked.sequential.ran
    /\ walked' = [walked EXCEPT !.sequential = Walked(CollectSequential(walked.tree))]
    /\ UNCHANGED <<storeVars, batchVars, confVars, routerVars, summaryVars, archiveVars,
                   toolVars>>

\* ingest_directory_with_parallel_ai(directory_path) on the tree
WalkParallel ==
    /\ ~walked.parallel.ran
    /\ walked' = [walked EXCEPT !.parallel = Walked(CollectParallel(walked.tree))]
    /\ UNCHANGED <<storeVars, batchVars, confVars, routerVars, summaryVars, archiveVars,
                   toolVars>>

WalkIdle == walked = [tree |-> {}, sequential |-> NotWalked, parallel |-> NotWalked]

SideIdle == SummaryIdle /\ ArchiveIdle /\ ToolsIdle /\ WalkIdle

StoreInit ==
    /\ disk \in [Paths -> Contents \cup {"absent"}]
    /\ collection = {}
    /\ file_contents = [p \in Paths |-> "absent"]
    /\ all_files = <<>>
    /\ openai_api_key \in BOOLEAN
    /\ last = [op |-> "none", ok |-> TRUE, held |-> 0, adds |-> <<>>, clear |-> "none"]

BatchIdle ==
    /\ file_data = <<>>
    /\ max_concurrent = MaxConcurrent
    /\ semaphore = 0
    /\ task = <<>>
    /\ task_result = <<>>
    /\ call_outcome = <<>>
    /\ chunk_i = 1
    /\ results = {}
    /\ ai_summaries = {}
    /\ caller = "ingest"
    /\ bpc = "idle"

Init == StoreInit /\ BatchIdle /\ ConfIdle /\ RouterIdle /\ SideIdle

Next ==
    \/ IngestDirectory
    \/ IngestDirectoryParallel
    \/ \E p \in Paths : \E f, add_ok \in BOOLEAN : IndexFile(p, f, add_ok)
    \/ \E p \in Paths : \E c \in Contents \cup {"absent"} : EditFile(p, c)

Spec == Init /\ [][Next]_vars

(***************************************************************************)
(* One indexer running ingest_directory_with_parallel_ai step by step on a *)
(* directory of up to MaxBatch files.                                      *)
(***************************************************************************)
ParallelIngestInit ==
    /\ \E n \in 1..MaxBatch : disk = [p \in 1..n |-> "v1"]
    /\ collection = {}
    /\ file_contents = [p \in DOMAIN disk |-> "absent"]
    /\ all_files = <<>>
    /\ openai_api_key \in BOOLEAN
    /\ last = [op |-> "none", ok |-> TRUE, held |-> 0, adds |-> <<>>, clear |-> "none"]
    /\ BatchIdle
    /\ ConfIdle
    /\ RouterIdle
    /\ SideIdle

ParallelIngestNext ==
    \/ IngestParallelStart
    \/ \E j \in 1..N : Acquire(j)
    \/ \E j \in 1..N : \E o \in CallOutcomes : Complete(j, o)
    \/ NextChunk
    \/ IngestParallelFinish

SpecParallelIngest == ParallelIngestInit /\ [][ParallelIngestNext]_vars

(***************************************************************************)
(* The coordinator alone: generate_all_summaries_parallel called on a      *)
(* batch of distinct paths, the empty one included, with some concurrency  *)
(* limit.                                                                  *)
(***************************************************************************)
BatchInit ==
    /\ StoreInit
    /\ disk = [p \in Paths |-> "absent"]
    /\ openai_api_key = TRUE
    /\ \E n \in 0..MaxBatch : file_data = [j \in 1..n |-> j]
    /\ max_concurrent \in 1..MaxConcurrent
    /\ semaphore = 0
    /\ task = <<>>
    /\ task_result = <<>>
    /\ call_outcome = <<>>
    /\ chunk_i = 1
    /\ results = {}
    /\ ai_summaries = {}
    /\ caller = "direct"
    /\ bpc = "idle"
    /\ ConfIdle
    /\ RouterIdle
    /\ SideIdle

BatchNext ==
    \/ StartBatch
    \/ \E j \in 1..N : Acquire(j)
    \/ \E j \in 1..N : \E o \in CallOutcomes : Complete(j, o)
    \/ NextChunk
    \/ ReturnBatch

SpecBatch == BatchInit /\ [][BatchNext]_vars

\* The event loop runs every coroutine that is ready: a gathered coroutine
\* takes a free token, gather returns when its chunk is done.  Every request
\* ends, by a response, an error or the 60 s total timeout of the session.
BatchFairness ==
    /\ WF_vars(StartBatch)
    /\ WF_vars(\E j \in 1..N : Acquire(j))
    /\ WF_vars(\E j \in 1..N : \E o \in CallOutcomes : Complete(j, o))
    /\ WF_vars(NextChunk)
    /\ WF_vars(ReturnBatch)

SpecBatchFair == BatchInit /\ [][BatchNext]_vars /\ BatchFairness

(***************************************************************************)
(* The confidence score alone: a query and a candidate list that grows by  *)
(* one retrieved summary at a time.                                        *)
(***************************************************************************)
ConfSpecInit == StoreInit /\ disk = [p \in Paths |-> "absent"] /\ openai_api_key
                /\ BatchIdle /\ ConfInit /\ RouterIdle /\ SideIdle

ConfNext == \E text \in SummaryTexts : AddSummary(text)

SpecConf == ConfSpecInit /\ [][ConfNext]_vars

(***************************************************************************)
(* The router alone: a store of up to MaxIndexed summaries, an agent       *)
(* constructed on it, and queries answered one after the other.            *)
(***************************************************************************)
RouterSpecInit ==
    /\ StoreInit /\ disk = [p \in Paths |-> "absent"] /\ openai_api_key
    /\ BatchIdle
    /\ ConfIdle
    /\ \E n \in 0..MaxIndexed : indexed \in [1..n -> IndexedTexts]
    /\ singleton \in BOOLEAN
    /\ indexer = "unbuilt"
    /\ repo_assistant = FALSE
    /\ confidence_threshold = default_confidence_threshold
    /\ query_patterns = [q \in Queries |-> 0]
    /\ rq = NoCall
    /\ messages = <<>>
    /\ SideIdle

RouterNext ==
    \/ \E key, connects, connects_again, builds \in BOOLEAN :
          \E threshold \in Thresholds :
             ConstructAgent(key, threshold, connects, connects_again, builds)
    \/ \E query \in Queries : \E max_results \in 1..MaxCandidates : \E search_ok \in BOOLEAN :
          Query(query, max_results, search_ok)
    \/ CompletionRaises
    \/ \E content \in {"content", "None"} : CompletionContent(content)
    \/ \E n \in 1..MaxToolCalls : \E fail_at \in 0..n :
          CompletionToolCalls([i \in 1..n |-> "search_code"], fail_at)

SpecRouter == RouterSpecInit /\ [][RouterNext]_vars

(***************************************************************************)
(* The escalation alone: an agent with a repository assistant over a store *)
(* of one unstructured summary, and completions that call tools of every   *)
(* name.                                                                   *)
(***************************************************************************)
EscalationInit ==
    /\ StoreInit /\ disk = [p \in Paths |-> "absent"] /\ openai_api_key
    /\ BatchIdle
    /\ ConfIdle
    /\ indexed = << <<"handles", "login">> >>
    /\ singleton \in BOOLEAN
    /\ indexer = "unbuilt"
    /\ repo_assistant = FALSE
    /\ confidence_threshold = default_confidence_threshold
    /\ query_patterns = [q \in Queries |-> 0]
    /\ rq = NoCall
    /\ messages = <<>>
    /\ SideIdle

EscalationNext ==
    \/ \E connects \in BOOLEAN : ConstructAgent(TRUE, default_confidence_threshold, connects, TRUE, TRUE)
    \/ Query(<<"How", "does", "authentication", "work?">>, 1, TRUE)
    \/ CompletionRaises
    \/ \E content \in {"content", "None"} : CompletionContent(content)
    \/ \E n \in 1..MaxToolCalls : \E names \in [1..n -> ToolNames] : \E fail_at \in 0..n :
          CompletionToolCalls(names, fail_at)

SpecEscalation == EscalationInit /\ [][EscalationNext]_vars

(***************************************************************************)
(* File summaries alone: files of every extension, size and content are    *)
(* summarized by the sequential and by the parallel ingestion, with the    *)
(* service present, failing or absent.                                     *)
(***************************************************************************)
ArchiveSpecInit ==
    /\ StoreInit /\ disk = [p \in Paths |-> "absent"] /\ openai_api_key
    /\ BatchIdle
    /\ ConfIdle
    /\ RouterIdle
    /\ SideIdle

ArchiveNext ==
    \/ \E archive \in Archives : \E wrapped \in BOOLEAN : IngestZipExtract(archive, wrapped)
    \/ \E archive \in Archives : \E wrapped \in BOOLEAN : ChatbotZipExtract(archive, wrapped)
    \/ \E ingest_ok \in BOOLEAN : IngestExtracted(ingest_ok)
    \/ \E archive \in Archives : \E wrapped \in BOOLEAN : IngestRepository(archive, wrapped)

SpecArchive == ArchiveSpecInit /\ [][ArchiveNext]_vars

\* a store some process has ingested into, before the first tool call
ToolsSpecInit ==
    /\ disk \in [Paths -> {"v1", "absent"}]
    /\ collection = {}
    /\ file_contents = disk
    /\ all_files \in Orders(Collected)
    /\ openai_api_key = TRUE
    /\ last = [op |-> "none", ok |-> TRUE, held |-> 0, adds |-> <<>>, clear |-> "none"]
    /\ BatchIdle
    /\ ConfIdle
    /\ \E n \in 0..MaxIndexed : indexed \in [1..n -> IndexedTexts]
    /\ singleton \in BOOLEAN
    /\ indexer = "unbuilt"
    /\ repo_assistant = FALSE
    /\ confidence_threshold = default_confidence_threshold
    /\ query_patterns = [q \in Queries |-> 0]
    /\ rq = NoCall
    /\ messages = <<>>
    /\ SideIdle

ToolsNext ==
    \/ \E query \in Queries : \E max_results \in 1..MaxIndexed :
          \E connects, search_ok \in BOOLEAN :
              SearchCode(query, max_results, connects, search_ok)
    \/ \E function_name \in Queries : \E connects, search_ok, defined \in BOOLEAN :
          ExplainFunction(function_name, connects, search_ok, defined)
    \/ \E class_name \in Queries : \E connects, search_ok, defined \in BOOLEAN :
          ExplainClass(class_name, connects, search_ok, defined)
    \/ \E p \in Paths : \E exact, connects \in BOOLEAN : GetFileContent(p, exact, connects)
    \/ \E connects \in BOOLEAN : ListProjectStructure(connects)

SpecTools == ToolsSpecInit /\ [][ToolsNext]_vars

SummarySpecInit ==
    /\ StoreInit /\ disk = [p \in Paths |-> "absent"] /\ openai_api_key
    /\ BatchIdle
    /\ ConfIdle
    /\ RouterIdle
    /\ SideIdle

SummaryNext ==
    \/ \E ext \in Exts : \E line_count \in LineCounts : \E content \in FileContents :
         \E client, call_ok \in BOOLEAN : \E service_text \in ServiceTexts :
            SummarizeSequential(ext, line_count, content, client, call_ok, service_text)
    \/ \E ext \in Exts : \E line_count \in LineCounts : \E key \in BOOLEAN :
         \E outcome \in CallOutcomes : \E service_text \in ServiceTexts :
            SummarizeParallel(ext, line_count, key, outcome, service_text)

SpecSummary == SummarySpecInit /\ [][SummaryNext]_vars

(***************************************************************************)
(* Re-ingestion: a directory whose files come and go is ingested again and *)
(* again, by either method, into a store that index_file also writes to.   *)
(***************************************************************************)
ReingestInit ==
    /\ disk \in [Paths -> {"v1", "absent"}]
    /\ collection = {}
    /\ file_contents = [p \in Paths |-> "absent"]
    /\ all_files = <<>>
    /\ openai_api_key = TRUE
    /\ last = [op |-> "none", ok |-> TRUE, held |-> 0, adds |-> <<>>, clear |-> "none"]
    /\ BatchIdle
    /\ ConfIdle
    /\ RouterIdle
    /\ SideIdle

ReingestNext ==
    \/ IngestDirectory
    \/ IngestDirectoryParallel
    \/ \E p \in Paths : \E f, add_ok \in BOOLEAN : IndexFile(p, f, add_ok)
    \/ \E p \in Paths : \E c \in {"v1", "absent"} : EditFile(p, c)

SpecReingest == ReingestInit /\ [][ReingestNext]_vars

(***************************************************************************)
(* Regeneration: the store of the re-ingestion above, whose summaries are  *)
(* also regenerated by the agent and by the summary viewer.                *)
(***************************************************************************)
RegenerateNext ==
    \/ ReingestNext
    \/ \E has_indexer, key, delete_ok, root_exists, connects \in BOOLEAN :
          RegenerateAllSummariesWithAi(has_indexer, key, delete_ok, root_exists, connects)
    \/ \E use_parallel, get_ok, delete_ok, connects \in BOOLEAN :
          RegenerateAllSummaries(use_parallel, get_ok, delete_ok, connects)

SpecRegenerate == ReingestInit /\ [][RegenerateNext]_vars

(***************************************************************************)
(* Collecting alone: a directory tree that both ingestion methods walk.    *)
(***************************************************************************)
WalkInit ==
    /\ StoreInit /\ disk = [p \in Paths |-> "absent"] /\ openai_api_key
    /\ BatchIdle /\ ConfIdle /\ RouterIdle
    /\ SummaryIdle /\ ArchiveIdle /\ ToolsIdle
    /\ \E tree \in Trees :
          walked = [tree |-> tree, sequential |-> NotWalked, parallel |-> NotWalked]

WalkNext == WalkSequential \/ WalkParallel

SpecWalk == WalkInit /\ [][WalkNext]_vars

(***************************************************************************)
(* Claims about the store.                                                 *)
(***************************************************************************)
RecordsOfPath(p) == {r \in collection : r.file_path = p}

\* C1: after any sequence of ingest_directory, ingest_directory_with_parallel_ai
\* and index_file calls, the collection holds at most one record per file path.
C1_AtMostOneRecordPerPath ==
    \A p \in DOMAIN disk : Cardinality(RecordsOfPath(p)) <= 1

\* C2: the id under which a path is written depends on the path alone: no step
\* leaves a path under an id other than the one it had before the step.
C2_IdIsFunctionOfPath ==
    [][\A r \in collection : \A t \in collection' :
          r.file_path = t.file_path => r.id = t.id]_vars

(***************************************************************************)
(* Claims about the coordinator.                                           *)
(***************************************************************************)
Failed(j) == call_outcome[j] \in {"statusNot200", "timeout", "exception"}

Keys(mapping) == {x[1] : x \in mapping}

ValuesAt(mapping, k) == {x[2] : x \in {y \in mapping : y[1] = k}}

\* C3: the returned mapping has exactly the input paths as keys; a path whose
\* call failed maps to a text starting with "Error:", every other path maps to
\* the summary its own call produced.
C3_PartialFailureIsolation ==
    bpc = "returned" =>
        /\ Keys(ai_summaries) = Range(file_data)
        /\ \A j \in 1..N :
              /\ Cardinality(ValuesAt(ai_summaries, file_data[j])) = 1
              /\ \A v \in ValuesAt(ai_summaries, file_data[j]) :
                    IF Failed(j) THEN v.head = "Error:"
                    ELSE v = SummaryOf(file_data[j])

\* a returned batch of the largest size in which some calls failed, one of
\* them by timeout, and some succeeded
C3_Witness ==
    /\ bpc = "returned"
    /\ N = MaxBatch
    /\ \E j \in 1..N : call_outcome[j] = "timeout"
    /\ \E j \in 1..N : ~Failed(j)

\* C4: the number of calls in flight never exceeds max_concurrent.
C4_ConcurrencyBound == Cardinality(InFlight) <= max_concurrent

\* a batch larger than the limit with max_concurrent calls in flight and a
\* further task waiting for a token
C4_Witness ==
    /\ bpc = "running"
    /\ N > max_concurrent
    /\ Cardinality(InFlight) = max_concurrent
    /\ \E j \in 1..N : task[j] = "waiting"

\* C18: while a batch runs, the tokens taken are exactly those of the calls
\* between their acquisition and their return, whatever the calls ended
\* with; when the coordinator has returned, all max_concurrent tokens are free.
C18_TokenRelease ==
    /\ bpc = "running" => semaphore + Cardinality(InFlight) = max_concurrent
    /\ bpc = "returned" => semaphore = max_concurrent /\ InFlight = {}

\* a returned batch in which one call timed out, one raised and one got an
\* error status
C18_Witness ==
    /\ bpc = "returned"
    /\ semaphore = max_concurrent
    /\ \E j \in 1..N : call_outcome[j] = "timeout"
    /\ \E j \in 1..N : call_outcome[j] = "exception"
    /\ \E j \in 1..N : call_outcome[j] = "statusNot200"

\* what the claim says of a returned batch: a result for every input file,
\* "Error: Request timed out" for exactly the files whose call timed out, and
\* its own summary for every file whose call succeeded
BatchComplete ==
    /\ bpc = "returned"
    /\ Keys(ai_summaries) = Range(file_data)
    /\ \A j \in 1..N :
          /\ call_outcome[j] = "timeout"
                => ValuesAt(ai_summaries, file_data[j]) = {Text("Error:", "Request timed out", 0)}
          /\ call_outcome[j] = "status200"
                => ValuesAt(ai_summaries, file_data[j]) = {SummaryOf(file_data[j])}

C20_ChunksNeverGateAdmission ==
    (/\ bpc = "running"
     /\ Cardinality(InFlight) < max_concurrent
     /\ \E j \in 1..N : task[j] \in {"created", "waiting"})
        => \E j \in 1..N : ENABLED Acquire(j)

RECURSIVE Concat(_)
Concat(ss) == IF ss = <<>> THEN <<>> ELSE Head(ss) \o Concat(Tail(ss))

\* C21: in ingest_directory_with_parallel_ai nothing is added to the store
\* while a summarization call of the batch is in flight or not yet started;
\* the adds come after the coordinator has returned, one call of at most
\* batch_size records after the other, in input order.
C21_WritePhaseAfterFanIn ==
    /\ (bpc = "running" /\ caller = "ingest") => (collection = {} /\ last.adds = <<>>)
    /\ (last.op = "ingest_directory_with_parallel_ai" /\ last.ok) =>
          /\ bpc = "idle"
          /\ \A k \in DOMAIN last.adds : Len(last.adds[k]) \in 1..batch_size
          /\ Concat(last.adds) = [i \in 1..Len(all_files) |-> PositionalId(i - 1)]
          /\ Ids(collection) = Range(Concat(last.adds))
          /\ \A r \in collection :
                \E i \in DOMAIN all_files :
                    r.id = PositionalId(i - 1) /\ r.file_path = all_files[i]

\* a parallel ingestion whose batch ran through the coordinator has returned
\* and needed more than one collection.add call
C21_Witness ==
    /\ last.op = "ingest_directory_with_parallel_ai"
    /\ last.ok
    /\ openai_api_key
    /\ Len(last.adds) > 1
    /\ Cardinality(collection) = Len(all_files)

\* C15: when ingest_directory or ingest_directory_with_parallel_ai has
\* returned, whatever the store held before, the store holds exactly one
\* record for each file of the returned list, made from the content read in
\* this run, and nothing else; the record count is the length of the list.
C15_NoStaleEntries ==
    (last.op \in {"ingest_directory", "ingest_directory_with_parallel_ai"} /\ last.ok) =>
        /\ \A p \in Range(all_files) : Cardinality(RecordsOfPath(p)) = 1
        /\ \A r \in collection :
              /\ r.file_path \in Range(all_files)
              /\ r.doc = Doc(file_contents[r.file_path])
        /\ Cardinality(collection) = Len(all_files)

\* an ingestion of a two-file directory has returned; its clear step found
\* more records than that, and the store now holds two
C15_Witness ==
    /\ last.op \in {"ingest_directory", "ingest_directory_with_parallel_ai"}
    /\ last.ok
    /\ last.held > 2
    /\ Len(all_files) = 2
    /\ Cardinality(collection) = 2

\* C23: an ingestion never raises at its clear step: however get, delete or
\* delete_collection fail, it goes on with an empty collection.
C23_SelfHealingClear ==
    last.op \in {"ingest_directory", "ingest_directory_with_parallel_ai"}
        => last.clear \in {"deleted", "recreated"} /\ last.ok

\* C24: a call index_file(path, force_reindex=True) that returns False
\* leaves the store and the file_contents / all_files cache as they were.
C24_AtomicReindex ==
    [][\A p \in Paths :
          ((IndexFile(p, TRUE, TRUE) \/ IndexFile(p, TRUE, FALSE)) /\ ~last'.ok)
              => UNCHANGED <<collection, file_contents, all_files>>]_vars

\* C28: a regeneration that failed (regenerate_all_summaries_with_ai returned
\* False, or regenerate_all_summaries returned 0 after an error) leaves in
\* the store the records it held before the call.
C28_FailedRegenerationLosesNothing ==
    [][(/\ last'.op \in {"regenerate_all_summaries_with_ai", "regenerate_all_summaries"}
        /\ ~last'.ok)
          => collection' = collection]_vars

(***************************************************************************)
(* Claims about the query router.                                          *)
(***************************************************************************)
\* the last call of query_with_summary_first has ended
CallEnded == rq.ended \in {"returned", "raised"}

\* C5: whenever the search returned at least one summary and the confidence
\* reaches the effective threshold or some retrieved summary is structured,
\* the call returns, without raising, the response built from the retrieved
\* summaries together with used_cache = true.
C5_FastAnswerRouting ==
    (CallEnded /\ rq.n >= 1 /\ ChoosesFastAnswer(rq.query, rq.confidence, rq.has_structured))
        => /\ rq.ended = "returned"
           /\ rq.chosen = "FAST_ANSWER"
           /\ rq.used_cache
           /\ rq.response = Response("Summary Response", [i \in 1..rq.n |-> indexed[i]])

\* C6: a query put to an agent whose indexer is absent returns a "not indexed
\* yet" response; it raises nothing and is not escalated.
C6_NotIndexedYet ==
    (CallEnded /\ indexer = "none")
        => /\ rq.ended = "returned"
           /\ rq.response.kind = "not indexed yet"
           /\ rq.chosen # "ESCALATED"

\* C7: a call that returned from FAST_ANSWER or from ESCALATED has raised the
\* counter of its query by exactly one and left every other counter alone.
C7_QueryCounter ==
    (rq.ended = "returned" /\ rq.chosen \in {"FAST_ANSWER", "ESCALATED"})
        => query_patterns = [rq.entry_patterns EXCEPT ![rq.query] = @ + 1]

\* C8: an escalated call never raises: it returns used_cache = false and a
\* string; when the conversational layer raised, the string is the error
\* report of query_code, and when there is no repository assistant it is the
\* final fallback message.
C8_EscalationErrorsNeverPropagate ==
    (rq.chosen = "ESCALATED" /\ rq.ended # "running")
        => /\ rq.ended = "returned"
           /\ ~rq.used_cache
           /\ rq.caught => rq.response = Response("Error querying codebase", <<>>)
           /\ ~repo_assistant => rq.response = Response("Repository Analysis", <<>>)

\* an escalated call whose completion request raised has returned the error
\* report
C8_Witness ==
    /\ rq.chosen = "ESCALATED"
    /\ rq.ended = "returned"
    /\ repo_assistant
    /\ rq.caught
    /\ rq.response.kind = "Error querying codebase"
    /\ ~rq.used_cache

\* the call went through the routing decision
Routed == rq.chosen \in {"FAST_ANSWER", "ESCALATED"}

\* C26: a retrieved summary gets the structural-markers bonus of the score
\* if and only if the router counts it as a structured summary; so whenever a
\* retrieved summary shows a marker in any letter case, the query is routed
\* to FAST_ANSWER.
C26_ScoringAndRoutingAgree ==
    Routed =>
        /\ \A i \in 1..rq.n :
              HasMarkers(ResultDict(indexed[i]))
                 <=> HasStructuredSummaries(<<ResultDict(indexed[i])>>)
        /\ (\E i \in 1..rq.n : HasMarkers(ResultDict(indexed[i])))
              => /\ rq.has_structured
                 /\ rq.chosen = "FAST_ANSWER"

\* C27: the lowered threshold never changes the outcome: a query is routed
\* to FAST_ANSWER exactly when its confidence reaches the configured
\* threshold or some retrieved summary contains a structured indicator, which
\* is the decision taken with the configured threshold in the place of the
\* effective one.
C27_LoweredThresholdNeverMatters ==
    Routed =>
        LET base == confidence_threshold * (ConfDen(rq.query) \div 100)
        IN /\ rq.has_structured = HasStructuredSummaries(Search(rq.query, rq.n))
           /\ rq.chosen = "FAST_ANSWER" <=> (rq.confidence >= base \/ rq.has_structured)
           /\ ChoosesFastAnswer(rq.query, rq.confidence, rq.has_structured)
                 <=> (rq.confidence >= base \/ rq.has_structured)

\* a query with a structured summary whose confidence lies between the
\* lowered and the configured threshold took the FAST_ANSWER branch
C27_Witness ==
    /\ rq.chosen = "FAST_ANSWER"
    /\ CallEnded
    /\ rq.n >= 1
    /\ rq.has_structured
    /\ rq.confidence < confidence_threshold * (ConfDen(rq.query) \div 100)
    /\ rq.confidence >= EffectiveThreshold(rq.query, TRUE)

\* the conversation follows the turn protocol: the system and the user
\* message, then for each completion with tool calls its message followed by
\* one tool message per call, in call order, with that call's id and that
\* tool's result
TurnProtocol(msgs) ==
    /\ Len(msgs) >= 2
    /\ msgs[1].role = "system" /\ msgs[2].role = "user"
    /\ \A i \in 3..Len(msgs) :
          /\ msgs[i].role \in {"assistant", "tool"}
          /\ msgs[i].role = "assistant" =>
                LET calls == msgs[i].tool_calls IN
                /\ Len(calls) >= 1
                /\ i + Len(calls) <= Len(msgs)
                /\ i + Len(calls) < Len(msgs) => msgs[i + Len(calls) + 1].role = "assistant"
                /\ \A k \in DOMAIN calls :
                      /\ msgs[i + k].role = "tool"
                      /\ msgs[i + k].tool_call_id = calls[k].id
                      /\ msgs[i + k].content = "Unknown tool"
                            <=> calls[k].name \notin {"search_code", "get_file_content"}
          /\ msgs[i].role = "tool" => i > 3
    /\ Len(msgs) >= 3 => msgs[3].role = "assistant"

\* C22: whenever query_code is about to request a completion, every earlier
\* completion with tool calls is in the conversation, followed by exactly one
\* tool message per tool call, in call order, with that call's id (an unknown
\* tool name gives an 'Unknown tool' result); query_code returns the content
\* of a completion without tool calls, or the error string when it caught an
\* exception.
C22_EscalationTurnProtocol ==
    /\ rq.ended = "running" => TurnProtocol(messages)
    /\ (rq.ended = "returned" /\ rq.chosen = "ESCALATED" /\ repo_assistant) =>
          IF rq.caught THEN rq.response = Response("Error querying codebase", <<>>)
          ELSE rq.response \in {Response("content", <<>>), Response("None", <<>>)}

\* query_code is about to request its next completion after MaxTurns
\* completions with tool calls, one of them for an unknown tool
C22_Witness ==
    /\ rq.ended = "running"
    /\ Rounds = MaxTurns
    /\ \E i \in DOMAIN messages : messages[i].content = "Unknown tool"
    /\ \E i \in DOMAIN messages : Len(messages[i].tool_calls) = MaxToolCalls

(***************************************************************************)
(* Claims about archive inputs.                                            *)
(***************************************************************************)

\* C16: once a flow that extracts an archive has returned or raised, the
\* scratch directory that call made no longer exists, also when the
\* extraction itself raised.
C16_ScratchCleanup ==
    zcall.pc \in {"returned", "raised"} => zcall.dir \notin scratch

(***************************************************************************)
(* Claims about the tool surface.                                          *)
(***************************************************************************)

\* C17: every call of search_code, get_file_content, list_project_structure,
\* explain_function and explain_class returns a string and none raises; when
\* the search gave at least one result, explain_function and explain_class
\* return an explanation or the 'potential matches' string.
C17_ToolSurfaceTotal ==
    /\ tcall.outcome = "returned"
    /\ (tcall.tool \in {"explain_function", "explain_class"} /\ Len(indexed) > 0
            /\ mcp_indexer # "none")
          => tcall.reply \in {"explanation", "potential matches"}

\* C30: after a repository was ingested, the handle the tools obtain serves
\* every indexed path: get_file_content of an indexed path returns its
\* content, and list_project_structure lists the indexed files.
C30_IndexedFilesReadable ==
    [][/\ \A p \in Paths : \A connects \in BOOLEAN :
            (/\ GetFileContent(p, TRUE, connects)
             /\ file_contents[p] # "absent"
             /\ mcp_indexer' # "none")
                => tcall'.reply = "Content of"
       /\ \A connects \in BOOLEAN :
            (/\ ListProjectStructure(connects)
             /\ all_files # <<>>
             /\ mcp_indexer' # "none")
                => tcall'.reply = "Project Structure"]_vars

(***************************************************************************)
(* Claims about file summaries.                                            *)
(***************************************************************************)
\* the stored summary text mentions 'class' / 'function' (in any case)
MentionsClass(text) == In("class", Lower(text))
MentionsFunction(text) == In("function", Lower(text))

LanguageFileType(language) ==
    CASE language \in {DetectLanguage(ext) :
                         ext \in {".json", ".yaml", ".yml", ".xml", ".toml", ".ini", ".cfg"}}
                               -> "configuration"
      [] language = "markdown" -> "documentation"
      [] language = "sql"      -> "database"
      [] language = "docker"   -> "container"
      [] OTHER                 -> ""

\* C12: for a file whose detected language is a configuration format,
\* markdown, sql or docker, the file_type is the one of the language,
\* whatever the summary text contains.
C12_LanguageOverrides ==
    (fsum.via # "none" /\ LanguageFileType(fsum.summary.language) # "")
        => fsum.record.file_type = LanguageFileType(fsum.summary.language)

\* C13: the stored file_type, purpose and complexity_score of a record are
\* the post-processing of the text stored as the record's document.
C13_PostProcessingOfStoredText ==
    fsum.via # "none" =>
        /\ fsum.record.file_type = FileType(fsum.record.language, fsum.record.document)
        /\ fsum.record.purpose = FirstSentence(fsum.record.document)
        /\ fsum.record.complexity_score =
              CalculateAiComplexity(fsum.record.line_count, fsum.record.document)

\* C14: when the service is unavailable or the call for the file fails, the
\* text kept for the file is the heuristic summary.
C14_HeuristicFallback ==
    fsum.service \in {"unavailable", "failed"} =>
        fsum.record.document =
            FallbackBasicAnalysis(fsum.summary.language, fsum.summary.line_count,
                                  fsum.summary.content)

\* C25: the flag ai_generated of a summary is true exactly when its text was
\* returned by a successful call of the service; it is false for the
\* heuristic fallback, an error marker and the placeholder.
C25_ProvenanceFlag ==
    fsum.via # "none" => (fsum.summary.ai_generated <=> fsum.service = "ok")

(***************************************************************************)
(* Claims about the files an ingestion collects.                           *)
(***************************************************************************)
\* C29: on every directory tree ingest_directory and
\* ingest_directory_with_parallel_ai return the same set of relative paths
\* and write records for the same set of paths, namely the files with an
\* allowed extension and no ignored path component (that could be read).
C29_SameFilesCollected ==
    (walked.sequential.ran /\ walked.parallel.ran)
        => LET expected == {RelativePath(f) :
                              f \in {g \in walked.tree :
                                        /\ SuffixLower(g.suffix) \in CODE_EXTENSIONS
                                        /\ g.dir \notin IGNORE_PATTERNS
                                        /\ g.readable}}
           IN /\ walked.sequential.indexed_files = walked.parallel.indexed_files
              /\ walked.sequential.written = walked.parallel.written
              /\ walked.sequential.indexed_files = expected
              /\ walked.parallel.written = expected

(***************************************************************************)
(* Claims about the confidence score.                                      *)
(***************************************************************************)
Added == cands[Len(cands)]
Before == SubSeq(cands, 1, Len(cands) - 1)

\* the summary added last has structural markers and at least the query-term
\* overlap of every summary that was there before
MoreOverlapAndMarkers ==
    /\ cands # <<>>
    /\ HasMarkers(Added)
    /\ \A i \in DOMAIN Before :
          MatchingWords(cquery, Added) >= MatchingWords(cquery, Before[i])

\* ... and at least their length score and their code-keyword bonus
NoSmallerComponent ==
    /\ MoreOverlapAndMarkers
    /\ \A i \in DOMAIN Before :
          /\ LengthScore(Added) >= LengthScore(Before[i])
          /\ HasCodeKeyword(Before[i]) => HasCodeKeyword(Added)

\* C9 as stated: adding a summary with structural markers and at least the
\* overlap of every summary of the set never decreases the confidence.
C9_ConfidenceMonotone == MoreOverlapAndMarkers => prev_conf <= conf

\* C9 amended: adding a summary with structural markers whose overlap, length
\* score and code-keyword bonus are each at least those of every summary of
\* the set never decreases the confidence.
C9_MonotoneWhenNoComponentSmaller == NoSmallerComponent => prev_conf <= conf

\* a full candidate list whose last summary dominates the others, some of
\* them with a smaller score, and the confidence grew without reaching 1
C9_Witness ==
    /\ Len(cands) = MaxCandidates
    /\ NoSmallerComponent
    /\ \E i \in DOMAIN Before :
          SummaryConfidence(cquery, Before[i]) < SummaryConfidence(cquery, Added)
    /\ prev_conf < conf
    /\ conf < One(cquery)

\* 1.2 times the mean of the per-summary scores, in units of 1 / ConfDen
BoostedMean == 12 * AvgConfidence(cquery, cands)

\* C10: the confidence lies in [0, 1]; it is 0 for an empty list; for one
\* summary it is that summary's score capped at 1 (no boost); for more than
\* one it is 1.2 times the mean, capped at 1 after the multiplication.
C10_ConfidenceRange ==
    /\ 0 <= conf
    /\ conf <= One(cquery)
    /\ cands = <<>> => conf = 0
    /\ Len(cands) = 1 =>
          conf = Min(SummaryConfidence(cquery, cands[1]) * Factorial(MaxCandidates) * 10,
                     One(cquery))
    /\ Len(cands) > 1 => conf = Min(BoostedMean, One(cquery))

\* several summaries whose mean is below 1 and whose boosted mean is above 1:
\* the cap acts on the boosted value
C10_Witness ==
    /\ Len(cands) > 1
    /\ 10 * AvgConfidence(cquery, cands) < One(cquery)
    /\ BoostedMean > One(cquery)
    /\ conf = One(cquery)

====
